---- MODULE Spec2Model ----
(***************************************************************************)
(* pythondialog (dialog.py): the process invoker, the termination handler  *)
(* and the gauge controller of class Dialog, modelled at the level of the  *)
(* system calls they make (pipe, fork, close, dup, dup2, execve, waitpid,  *)
(* read) together with the forked child and the dialog-like backend.       *)
(***************************************************************************)
EXTENDS Integers, Sequences, FiniteSets, TLC

\* ------------------------------------------------------------------ bounds
\* Number of backend invocations (widget calls and gauge_start calls) in a run.
MaxCalls == 2
\* Capacity of a pipe buffer, in bytes.
PipeCap == 2
\* Number of system calls that fail in a run.
MaxFaults == 1
\* Number of consecutive gauge_update calls that are followed.
MaxUpdates == 3

\* --------------------------------------------------------- value universes
\* Bytes a backend may write on its result channel: an ordinary character, a
\* carriage return, a line feed, and a byte sequence that is not valid in
\* the locale's encoding.
Byte == {"a", "CR", "LF", "BAD"}

\* Exit codes a child may exit with: the default OK and ERROR codes, a code
\* that is none of the seven named ones, and the two reserved codes.
ExitCodes == {0, 3, 7, 126, 127}

\* Signal numbers a child may be terminated by.
Signals == 1..31

\* Values a program may assign to the DIALOG_ERROR attribute.
ConfigCodes == {3, 126, 127}

StatusNames == {"OK", "CANCEL", "ESC", "ERROR", "EXTRA", "HELP", "ITEM_HELP"}

Pids == 1..MaxCalls

\* A pipe is named by the call that created it and its role; a pipe end by
\* the pipe and "r" or "w".
PipeIds == Pids \X {"out", "in"}
Rfd(k, kind) == <<k, kind, "r">>
Wfd(k, kind) == <<k, kind, "w">>

NoFd == <<0, "none", "x">>
PipeOf(fd) == <<fd[1], fd[2]>>

\* ------------------------------------------------------- module-level data
\* _dialog_exit_status_vars
dialog_exit_status_vars ==
    [n \in StatusNames |->
        CASE n = "OK" -> 0
          [] n = "CANCEL" -> 1
          [] n = "ESC" -> 2
          [] n = "ERROR" -> 3
          [] n = "EXTRA" -> 4
          [] n = "HELP" -> 5
          [] n = "ITEM_HELP" -> 6]

\* ----------------------------------------------------- wait status words
\* The status word waitpid() reports: exit code in bits 8..15 for a normal
\* exit; signal number in bits 0..6 and the core-dump flag in bit 7 for a
\* child terminated by a signal.
StatusOfExit(code) == (code % 256) * 256
StatusOfSignal(sig, core) == sig + (IF core THEN 128 ELSE 0)

WIFEXITED(status) == status % 128 = 0
WEXITSTATUS(status) == (status \div 256) % 256
WIFSIGNALED(status) == (status % 128) # 0 /\ (status % 128) # 127
\* A WTERMSIG that forgets to mask the core-dump flag, for comparison.
WTERMSIG_NoMask(status) == status % 256
WTERMSIG(status) == status % 128

\* --------------------------------------------------- text-mode file read
\* os.fdopen(fd, "r").read(): the bytes are decoded with the locale's
\* encoding (errors are strict) and newlines are translated: "\r\n" and a
\* lone "\r" are returned as "\n".
RECURSIVE UniversalNewlines(_)
UniversalNewlines(s) ==
    IF s = <<>> THEN <<>>
    ELSE IF Head(s) = "CR"
         THEN IF Len(s) >= 2 /\ s[2] = "LF"
              THEN <<"LF">> \o UniversalNewlines(SubSeq(s, 3, Len(s)))
              ELSE <<"LF">> \o UniversalNewlines(Tail(s))
         ELSE <<Head(s)>> \o UniversalNewlines(Tail(s))

Decodable(s) == \A i \in 1..Len(s) : s[i] # "BAD"

\* A binary-mode read, which leaves the bytes as they are, for comparison.
TextModeRead_Raw(s) == s
TextModeRead(s) == UniversalNewlines(s)

\* ------------------------------------------------------------------ state
VARIABLES
    DIALOG,          \* the instance's DIALOG_OK, DIALOG_ERROR, ... attributes
    gauge_process,   \* self._gauge_process
    frame,           \* the public operation the parent is executing
    pc,              \* the parent's position inside it
    child_pid,       \* locals of _call_program / _perform / gauge_start
    child_output_rfd,
    child_output_wfd,
    child_stdin_rfd,
    child_stdin_wfd,
    exit_info,       \* locals of _wait_for_program_termination
    exit_code,
    child_output,
    result,          \* how the last public operation ended
    parent_fds,      \* pipe ends open in the parent process
    child,           \* the forked processes, by pid
    buf,             \* bytes in flight in each pipe
    ncalls,          \* invocations started so far
    nfaults,         \* system calls that have failed so far
    rd,              \* what the termination handler's read of the pipe did
    call,            \* a call of one of the module-level helper functions
    dialog_persistent_arglist,  \* self.dialog_persistent_arglist
    persistent_calls,           \* the calls that have added to it, in order
    DIALOGRC,        \* self.DIALOGRC, when the instance has the attribute
    compat,          \* self.compat
    use_stdout,      \* self.use_stdout
    debug,           \* self._debug_enabled, self._debug_logfile and the like
    environ,         \* os.environ
    files,           \* the file system: what there is at each path
    temp,            \* locals of scrollbox and _create_temporary_directory
    box              \* locals of _progressboxoid, descriptors of its caller

process_vars == <<DIALOG, gauge_process, frame, pc, child_pid, child_output_rfd,
                  child_output_wfd, child_stdin_rfd, child_stdin_wfd, exit_info,
                  exit_code, child_output, result, parent_fds, child, buf,
                  ncalls, nfaults, rd>>

instance_vars == <<dialog_persistent_arglist, persistent_calls, DIALOGRC,
                   compat, use_stdout, debug, environ>>

\* What the invoker, the termination handler and the gauge methods leave
\* alone.
helper_vars == <<call, instance_vars, files, temp, box>>

vars == <<process_vars, helper_vars>>

locals == <<child_pid, child_output_rfd, child_output_wfd, child_stdin_rfd,
            child_stdin_wfd, exit_info, exit_code, child_output>>

NoResult == [kind |-> "none", op |-> "none", pid |-> 0, exc |-> "none",
             arg |-> 0, code |-> -1, text |-> <<>>]

\* written and updates are history: the characters that the gauge_update
\* calls made in a row have written and flushed to p["stdin"], and the
\* arguments of those calls.
NoGauge == [set |-> FALSE, pid |-> 0, stdin |-> NoFd, stdin_open |-> FALSE,
            child_output_rfd |-> NoFd, written |-> "", updates |-> <<>>]

\* A process slot that no fork() has filled yet.
NoChild == [st |-> "none", gauge |-> FALSE, fds |-> {}, stdin |-> NoFd,
            resfd |-> NoFd, father_stderr |-> FALSE, out |-> <<>>,
            how |-> "none", code |-> -1, sig |-> 0,
            reported |-> FALSE, abandoned |-> FALSE]

\* No helper function has been called: fn names the function, args is the
\* object passed to it and res what the call did.
NoRes == [kind |-> "none", val |-> <<>>, exc |-> "none"]
NoCall == [fn |-> "none", args |-> <<>>, res |-> NoRes]

\* No call of scrollbox or of _create_temporary_directory is in progress.
NoTemp == [pc |-> "idle", i |-> 0, tmp_dir |-> <<>>, mkdirs |-> <<>>,
           removals |-> <<>>, exc |-> "none", code |-> -1, files0 |-> <<>>]

ProcessInit ==
    /\ DIALOG = dialog_exit_status_vars
    /\ gauge_process = NoGauge
    /\ frame = "none"
    /\ pc = "idle"
    /\ child_pid = 0
    /\ child_output_rfd = NoFd
    /\ child_output_wfd = NoFd
    /\ child_stdin_rfd = NoFd
    /\ child_stdin_wfd = NoFd
    /\ exit_info = -1
    /\ exit_code = -1
    /\ child_output = <<>>
    /\ result = NoResult
    /\ parent_fds = {}
    /\ child = [k \in Pids |-> NoChild]
    /\ buf = [p \in PipeIds |-> <<>>]
    /\ ncalls = 0
    /\ nfaults = 0
    /\ rd = "no"

\* The debugging attributes as the constructor's self.setup_debug(False)
\* (line 764) leaves them; log is what has been written to the file object.
NoDebug == [enabled |-> FALSE, logfile |-> "None", always_flush |-> FALSE,
            first_output |-> TRUE, raised |-> "none", log |-> <<>>]

\* _progressboxoid has not been called; open holds the descriptors that
\* are open in the calling process, closes the calls of os.close made.
NoBox == [pc |-> "idle", widget |-> "none", file_path |-> FALSE,
          fd |-> "None", text |-> FALSE, open |-> {}, stdin |-> "None",
          args |-> <<>>,
          closes |-> <<>>, exc |-> "none", code |-> -1]

\* Dialog() with the default arguments, in a process whose environment has
\* no variable that matters here.
InstanceInit ==
    /\ dialog_persistent_arglist = <<>>
    /\ persistent_calls = <<>>
    /\ DIALOGRC = [type |-> "none"]
    /\ compat = "dialog"
    /\ use_stdout = FALSE
    /\ debug = NoDebug
    /\ environ = <<>>
    /\ files = <<>>
    /\ temp = NoTemp
    /\ box = NoBox

Init == ProcessInit /\ InstanceInit /\ call = NoCall

\* ------------------------------------------------------- kernel bookkeeping
Alive(k) == child[k].st \notin {"none", "zombie", "reaped"}

\* The pipe ends a live child has open, through inherited descriptors or
\* through its standard streams.
ChildEnds(k) ==
    IF Alive(k) THEN child[k].fds \cup ({child[k].stdin, child[k].resfd} \ {NoFd})
    ELSE {}

\* Whether some process still has the write end of pipe <<k, kind>> open.
HasWriter(k, kind) ==
    \/ Wfd(k, kind) \in parent_fds
    \/ \E c \in Pids : Wfd(k, kind) \in ChildEnds(c)

\* ------------------------------------------------ how an operation ends
\* OSErrorHandling(): an OSError raised inside the block leaves it as
\* PythonDialogOSError; any other exception passes through unchanged.
OSErrorHandling(exc) == IF exc = "OSError" THEN "PythonDialogOSError" ELSE exc

\* The body of gauge_start is one OSErrorHandling() block, so an exception
\* leaving _call_program passes through it on its way to the caller.
Propagate(exc) == IF frame = "gauge_start" THEN OSErrorHandling(exc) ELSE exc

\* The system call succeeds (ok) or fails; at most MaxFaults calls fail.
Fault(ok) ==
    /\ ok \/ nfaults < MaxFaults
    /\ nfaults' = IF ok THEN nfaults ELSE nfaults + 1

\* The processes the program still has a pid for.
Observed(k) == gauge_process.set /\ gauge_process.pid = k

\* Between two operations: a child that was waited for is gone; of one the
\* program holds no pid for, only the descriptors it keeps open matter.
Lost == [NoChild EXCEPT !.st = "zombie", !.how = "lost", !.abandoned = TRUE]

Forget(k) ==
    LET c == child[k] IN
    IF c.st = "none" THEN c
    ELSE IF c.st = "reaped" THEN [NoChild EXCEPT !.st = "reaped"]
    ELSE IF Observed(k) THEN [c EXCEPT !.out = <<>>, !.reported = FALSE]
    ELSE IF c.st = "zombie" THEN Lost
    ELSE [c EXCEPT !.out = <<>>, !.reported = FALSE, !.abandoned = TRUE]

\* The pipes the program still has a descriptor variable for.
Retained(p) ==
    /\ gauge_process.set
    /\ p \in {PipeOf(gauge_process.stdin), PipeOf(gauge_process.child_output_rfd)}

ResetLocals ==
    /\ child_pid' = 0
    /\ child_output_rfd' = NoFd
    /\ child_output_wfd' = NoFd
    /\ child_stdin_rfd' = NoFd
    /\ child_stdin_wfd' = NoFd
    /\ exit_info' = -1
    /\ exit_code' = -1
    /\ child_output' = <<>>

\* The operation in progress raises exc(arg) to the caller.
Raise(exc, arg) ==
    /\ result' = [kind |-> "raise", op |-> frame, pid |-> child_pid,
                  exc |-> Propagate(exc), arg |-> arg, code |-> -1,
                  text |-> <<>>]
    /\ frame' = "none"
    /\ pc' = "idle"
    /\ ResetLocals

\* The operation in progress returns (code, text) to the caller.
Return(code, text) ==
    /\ result' = [kind |-> "return", op |-> frame, pid |-> child_pid,
                  exc |-> "none", arg |-> 0, code |-> code, text |-> text]
    /\ frame' = "none"
    /\ pc' = "idle"
    /\ ResetLocals

\* The program goes on after an operation has ended: what the operation
\* left behind and nothing refers to any more is dropped from the state.
MoveOn ==
    /\ pc = "idle"
    /\ result' = NoResult
    /\ rd' = "no"
    /\ child' = [k \in Pids |-> Forget(k)]
    /\ buf' = [p \in PipeIds |-> IF Retained(p) THEN buf[p] ELSE <<>>]
    /\ gauge_process' = [gauge_process EXCEPT !.written = "", !.updates = <<>>]
    /\ UNCHANGED nfaults

\* A public operation is entered.
Enter(op, at) ==
    /\ MoveOn
    /\ frame' = op
    /\ pc' = at

\* ------------------------------------------------- DIALOG_* attributes
\* The program assigns a new value to the instance's DIALOG_ERROR attribute.
\* Nothing in the module checks the value.
AssignDialogError(v) ==
    /\ MoveOn
    /\ DIALOG' = [DIALOG EXCEPT !["ERROR"] = v]
    /\ UNCHANGED <<frame, pc, locals, parent_fds, ncalls>>
    /\ UNCHANGED helper_vars

\* ---------------------------------------------------------- _call_program
\* A widget method calls _perform, which calls _call_program.
Perform ==
    /\ ncalls < MaxCalls
    /\ Enter("perform", "cp_args")
    /\ ncalls' = ncalls + 1
    /\ UNCHANGED <<DIALOG, locals, parent_fds>>
    /\ UNCHANGED helper_vars

\* Lines 940-970: environment and argument list. _compute_common_args looks
\* every keyword up in _common_args_syntax; an unknown one is a KeyError.
CallProgram_args(known_options) ==
    /\ pc = "cp_args"
    /\ IF known_options
       THEN /\ pc' = "cp_pipe"
            /\ UNCHANGED <<frame, locals, result>>
       ELSE Raise("KeyError", 0)
    /\ UNCHANGED <<DIALOG, gauge_process, parent_fds, child, buf, ncalls, rd>>
    /\ UNCHANGED nfaults
    /\ UNCHANGED helper_vars

\* os.pipe() for the result channel, inside OSErrorHandling().
CallProgram_pipe(ok) ==
    /\ pc = "cp_pipe"
    /\ Fault(ok)
    /\ IF ok
       THEN /\ child_output_rfd' = Rfd(ncalls, "out")
            /\ child_output_wfd' = Wfd(ncalls, "out")
            /\ parent_fds' = parent_fds \cup {Rfd(ncalls, "out"), Wfd(ncalls, "out")}
            /\ pc' = "cp_fork"
            /\ UNCHANGED <<frame, child_pid, child_stdin_rfd, child_stdin_wfd,
                           exit_info, exit_code, child_output, result>>
       ELSE /\ Raise(OSErrorHandling("OSError"), 0)
            /\ UNCHANGED parent_fds
    /\ UNCHANGED <<DIALOG, gauge_process, child, buf, ncalls, rd>>
    /\ UNCHANGED helper_vars

\* os.fork(), outside any OSErrorHandling() block. The child starts with a
\* copy of the parent's descriptors.
CallProgram_fork(ok) ==
    /\ pc = "cp_fork"
    /\ Fault(ok)
    /\ IF ok
       THEN /\ child' = [child EXCEPT ![ncalls] =
                            [NoChild EXCEPT !.st = "forked",
                                            !.gauge = (frame = "gauge_start"),
                                            !.fds = parent_fds]]
            /\ child_pid' = ncalls
            /\ pc' = "cp_close"
            /\ UNCHANGED <<frame, child_output_rfd, child_output_wfd,
                           child_stdin_rfd, child_stdin_wfd, exit_info,
                           exit_code, child_output, result>>
       ELSE /\ Raise("OSError", 0)
            /\ UNCHANGED child
    /\ UNCHANGED <<DIALOG, gauge_process, parent_fds, buf, ncalls, rd>>
    /\ UNCHANGED helper_vars

\* The father: os.close(child_output_wfd), inside OSErrorHandling(). When
\* close() fails the descriptor may or may not have been released.
\* For comparison, a father that returns without closing the write end:
CallProgram_close_NoClose(ok, released) ==
    /\ pc = "cp_close"
    /\ Fault(ok)
    /\ ok /\ released
    /\ pc' = "cp_ret"
    /\ UNCHANGED <<frame, locals, result, parent_fds>>
    /\ UNCHANGED <<DIALOG, gauge_process, child, buf, ncalls, rd>>
    /\ UNCHANGED helper_vars

\* Lines 1022-1023.
CallProgram_close(ok, released) ==
    /\ pc = "cp_close"
    /\ Fault(ok)
    /\ (ok => released)
    /\ IF ok
       THEN /\ parent_fds' = parent_fds \ {child_output_wfd}
            /\ pc' = "cp_ret"
            /\ UNCHANGED <<frame, locals, result>>
       ELSE /\ parent_fds' = IF released THEN parent_fds \ {child_output_wfd}
                             ELSE parent_fds
            /\ Raise(OSErrorHandling("OSError"), 0)
    /\ UNCHANGED <<DIALOG, gauge_process, child, buf, ncalls, rd>>
    /\ UNCHANGED helper_vars

\* return (child_pid, child_output_rfd): control goes back to _perform, which
\* calls _wait_for_program_termination, or to gauge_start.
CallProgram_return ==
    /\ pc = "cp_ret"
    /\ pc' = IF frame = "gauge_start" THEN "gs_close" ELSE "wt_wait"
    /\ UNCHANGED <<DIALOG, gauge_process, frame, locals, result, parent_fds,
                   child, buf, ncalls, rd>>
    /\ UNCHANGED nfaults
    /\ UNCHANGED helper_vars

\* ------------------------------------------- the child, between fork and exec
parent_side == <<DIALOG, gauge_process, frame, pc, locals, result, parent_fds,
                 ncalls, rd>>

\* The process is gone: the kernel closes every descriptor it had. The exit
\* code of a backend, and the number of the signal that terminated a child,
\* are drawn when waitpid() collects the status.
Gone(c, how) ==
    IF c.abandoned THEN Lost
    ELSE [c EXCEPT !.st = "zombie", !.fds = {}, !.stdin = NoFd, !.resfd = NoFd,
                   !.father_stderr = FALSE, !.how = how,
                   !.out = IF how = "exit" THEN @ ELSE <<>>]

\* The except clause of the child (lines 1004-1007): print the traceback on
\* father_stderr, close it, os._exit(127).
ExceptClause(c) == [Gone(c, "exit127") EXCEPT !.reported = ~c.abandoned]

\* The same clause entered before father_stderr was bound: print() raises
\* UnboundLocalError, which leaves _call_program in the child process.
ExceptClause_Unbound(c) == [c EXCEPT !.st = "escaped"]

\* For comparison, a child that closes child_output_rfd alone:
ChildCloseList_NoCloseFds(k) == <<Rfd(k, "out")>>

\* The descriptors the child closes first: close_fds + (child_output_rfd,),
\* where gauge_start passes close_fds=(child_stdin_wfd,).
ChildCloseList(k) ==
    IF child[k].gauge THEN <<Wfd(k, "in"), Rfd(k, "out")>> ELSE <<Rfd(k, "out")>>

\* The system calls of the child, in program order.
ChildSteps == <<"close", "dup", "dup2_out", "dup2_in", "execve">>
StepNo(step) == CHOOSE i \in 1..Len(ChildSteps) : ChildSteps[i] = step

\* Lines 980-1010, the child between fork and exec; the steps touch nothing
\* but the child's own descriptor table. `fail` names the system call that
\* fails ("none": all succeed and the dialog-like program runs); when a
\* close() fails, n of them succeeded before it.
\*   for fd in close_fds + (child_output_rfd,): os.close(fd)
\*   father_stderr = os.fdopen(os.dup(2), mode="w", buffering=1)
\*   os.dup2(child_output_wfd, 1 if self.use_stdout else 2)
\*   if redir_child_stdin_from_fd is not None: os.dup2(redir_child_stdin_from_fd, 0)
\*   os.execve(self._dialog_prg, arglist, new_environ)
Child_before_exec(k, fail, n) ==
    /\ child[k].st = "forked"
    /\ fail \in {"none"} \cup {ChildSteps[i] : i \in 1..Len(ChildSteps)}
    /\ Fault(fail = "none")
    /\ fail = "dup2_in" => child[k].gauge
    /\ n \in 0..Len(ChildCloseList(k))
    /\ (fail = "close") = (n < Len(ChildCloseList(k)))
    /\ LET closed == {ChildCloseList(k)[i] : i \in 1..n}
           reached(step) == fail = "none" \/ StepNo(step) < StepNo(fail)
           c == [child[k] EXCEPT
                   !.fds = @ \ closed,
                   !.father_stderr = reached("dup"),
                   !.resfd = IF reached("dup2_out") THEN Wfd(k, "out") ELSE NoFd,
                   !.stdin = IF reached("dup2_in") /\ child[k].gauge
                             THEN Rfd(k, "in") ELSE NoFd]
       IN child' = [child EXCEPT ![k] =
                       IF fail = "none"
                       THEN [c EXCEPT !.st = "running", !.father_stderr = FALSE]
                       ELSE IF c.father_stderr THEN ExceptClause(c)
                       ELSE ExceptClause_Unbound(c)]
    /\ UNCHANGED <<parent_side, buf>>
    /\ UNCHANGED helper_vars

\* ------------------------------------------------------------ the backend
\* The dialog-like program writes byte b on its result channel; out is what
\* it has written so far. While the pipe is full the write() does not
\* return: the program is blocked until a reader makes room. What a process
\* writes that the program holds no pid for is not followed.
Backend_write(k, b) ==
    /\ child[k].st = "running"
    /\ ~child[k].gauge /\ ~child[k].abandoned
    /\ IF Len(buf[<<k, "out">>]) < PipeCap
       THEN /\ buf' = [buf EXCEPT ![<<k, "out">>] = Append(@, b)]
            /\ child' = [child EXCEPT ![k].out = Append(@, b)]
       ELSE /\ child' = [child EXCEPT ![k].st = "blocked"]
            /\ UNCHANGED buf
    /\ UNCHANGED parent_side
    /\ UNCHANGED nfaults
    /\ UNCHANGED helper_vars

\* The dialog-like program has written its result and exits.
Backend_exit(k) ==
    /\ child[k].st = "running"
    /\ child' = [child EXCEPT ![k] = Gone(@, "exit")]
    /\ UNCHANGED <<parent_side, buf>>
    /\ UNCHANGED nfaults
    /\ UNCHANGED helper_vars

\* A child that left _call_program with an exception runs the caller's code
\* as a second copy of the program, and ends at some point.
Escaped_exit(k) ==
    /\ child[k].st = "escaped"
    /\ child' = [child EXCEPT ![k] = Gone(@, "exit")]
    /\ UNCHANGED <<parent_side, buf>>
    /\ UNCHANGED nfaults
    /\ UNCHANGED helper_vars

\* A signal terminates the child, at any point of its life. Which signal it
\* was, and whether core was dumped, is drawn when waitpid() collects the
\* status.
Child_killed(k) ==
    /\ Alive(k)
    /\ child' = [child EXCEPT ![k] = Gone(@, "signal")]
    /\ UNCHANGED <<parent_side, buf>>
    /\ UNCHANGED nfaults
    /\ UNCHANGED helper_vars

\* -------------------------------------------- _wait_for_program_termination
Outcome(exc, arg, code) == [exc |-> exc, arg |-> arg, code |-> code]

\* Lines 1057-1093: what the handler makes of the status word, given the
\* instance's DIALOG_ERROR. exc = "none" means the handler goes on to read.
\* For comparison, a handler without the test against DIALOG_ERROR:
Classify_NoErrorCheck(status, dialog_error) ==
    IF WIFEXITED(status)
    THEN LET code == WEXITSTATUS(status) IN
         IF code = 127 THEN Outcome("PythonDialogErrorBeforeExecInChildProcess", 0, code)
         ELSE IF code = 126 THEN Outcome("ProbablyPythonBug", 0, code)
         ELSE Outcome("none", 0, code)
    ELSE IF WIFSIGNALED(status)
    THEN Outcome("DialogTerminatedBySignal", WTERMSIG(status), -1)
    ELSE Outcome("PythonDialogBug", 0, -1)

\* For comparison, a handler without the tests for 127 and 126:
Classify_SentinelsReturned(status, dialog_error) ==
    IF WIFEXITED(status)
    THEN LET code == WEXITSTATUS(status) IN
         IF code = dialog_error THEN Outcome("DialogError", code, code)
         ELSE Outcome("none", 0, code)
    ELSE IF WIFSIGNALED(status)
    THEN Outcome("DialogTerminatedBySignal", WTERMSIG(status), -1)
    ELSE Outcome("PythonDialogBug", 0, -1)

\* Lines 1057-1093 as they are.
Classify(status, dialog_error) ==
    IF WIFEXITED(status)
    THEN LET code == WEXITSTATUS(status) IN
         IF code = dialog_error THEN Outcome("DialogError", code, code)
         ELSE IF code = 127 THEN Outcome("PythonDialogErrorBeforeExecInChildProcess", 0, code)
         ELSE IF code = 126 THEN Outcome("ProbablyPythonBug", 0, code)
         ELSE Outcome("none", 0, code)
    ELSE IF WIFSIGNALED(status)
    THEN Outcome("DialogTerminatedBySignal", WTERMSIG(status), -1)
    ELSE Outcome("PythonDialogBug", 0, -1)

\* exit_info = os.waitpid(child_pid, 0)[1], outside any OSErrorHandling()
\* block. The call blocks until the child has terminated; it fails when the
\* process has no such child left to wait for, and may fail otherwise.
\* For comparison, a wait that returns without waiting for the child:
Wait_waitpid_NoHang(ok, code, sig, core) ==
    /\ pc = "wt_wait"
    /\ child_pid \in Pids
    /\ sig = 1 /\ core = FALSE /\ ok
    /\ UNCHANGED nfaults
    /\ exit_info' = StatusOfExit(code)
    /\ child' = [child EXCEPT ![child_pid].st =
                    IF @ = "zombie" THEN "reaped" ELSE @]
    /\ pc' = "wt_classify"
    /\ UNCHANGED <<frame, child_pid, child_output_rfd, child_output_wfd,
                   child_stdin_rfd, child_stdin_wfd, exit_code, child_output,
                   result>>
    /\ UNCHANGED <<DIALOG, gauge_process, parent_fds, buf, ncalls, rd>>
    /\ UNCHANGED helper_vars

\* Line 1056.
Wait_waitpid(ok, code, sig, core) ==
    /\ pc = "wt_wait"
    /\ child_pid \in Pids
    /\ IF child[child_pid].st = "reaped" THEN ~ok /\ UNCHANGED nfaults
       ELSE Fault(ok)
    /\ IF ok
       THEN /\ child[child_pid].st = "zombie"
            /\ IF child[child_pid].how = "signal"
               THEN /\ code = 0
                    /\ exit_info' = StatusOfSignal(sig, core)
                    /\ child' = [child EXCEPT ![child_pid].st = "reaped",
                                              ![child_pid].sig = sig]
               ELSE /\ sig = 1 /\ core = FALSE
                    /\ child[child_pid].how = "exit127" => code = 127
                    /\ exit_info' = StatusOfExit(code)
                    /\ child' = [child EXCEPT ![child_pid].st = "reaped",
                                              ![child_pid].code = code]
            /\ pc' = "wt_classify"
            /\ UNCHANGED <<frame, child_pid, child_output_rfd, child_output_wfd,
                           child_stdin_rfd, child_stdin_wfd, exit_code,
                           child_output, result>>
       ELSE /\ sig = 1 /\ core = FALSE /\ code = 0
            /\ Raise("OSError", 0)
            /\ UNCHANGED child
    /\ UNCHANGED <<DIALOG, gauge_process, parent_fds, buf, ncalls, rd>>
    /\ UNCHANGED helper_vars

\* Lines 1057-1093.
Wait_classify ==
    /\ pc = "wt_classify"
    /\ LET o == Classify(exit_info, DIALOG["ERROR"]) IN
       IF o.exc = "none"
       THEN /\ exit_code' = o.code
            /\ pc' = "wt_read"
            /\ UNCHANGED <<frame, child_pid, child_output_rfd, child_output_wfd,
                           child_stdin_rfd, child_stdin_wfd, exit_info,
                           child_output, result>>
       ELSE Raise(o.exc, o.arg)
    /\ UNCHANGED <<DIALOG, gauge_process, parent_fds, child, buf, ncalls, rd>>
    /\ UNCHANGED nfaults
    /\ UNCHANGED helper_vars

\* with os.fdopen(child_output_rfd, "r") as f: child_output = f.read()
\* inside OSErrorHandling(). read() returns at end-of-stream, that is once the
\* pipe is empty and no process has its write end open. Leaving the with
\* block closes the descriptor, also when read() raised.
Wait_read(ok) ==
    /\ pc = "wt_read"
    /\ Fault(ok)
    /\ child_output_rfd \in parent_fds
    /\ ~HasWriter(child_output_rfd[1], child_output_rfd[2])
    /\ IF ok /\ Decodable(buf[PipeOf(child_output_rfd)])
       THEN /\ child_output' = TextModeRead(buf[PipeOf(child_output_rfd)])
            /\ buf' = [buf EXCEPT ![PipeOf(child_output_rfd)] = <<>>]
            /\ rd' = "eof"
            /\ pc' = "wt_close"
            /\ UNCHANGED <<frame, child_pid, child_output_rfd, child_output_wfd,
                           child_stdin_rfd, child_stdin_wfd, exit_info,
                           exit_code, result, parent_fds>>
       ELSE /\ buf' = IF ok THEN [buf EXCEPT ![PipeOf(child_output_rfd)] = <<>>]
                      ELSE buf
            /\ rd' = IF ok THEN "eof" ELSE "failed"
            /\ parent_fds' = parent_fds \ {child_output_rfd}
            /\ Raise(IF ok THEN "UnicodeDecodeError" ELSE OSErrorHandling("OSError"), 0)
    /\ UNCHANGED <<DIALOG, gauge_process, child, ncalls>>
    /\ UNCHANGED helper_vars

\* The with block is left: the descriptor is closed; return (exit_code,
\* child_output). gauge_stop keeps the exit code only.
Wait_close ==
    /\ pc = "wt_close"
    /\ parent_fds' = parent_fds \ {child_output_rfd}
    /\ Return(exit_code, IF frame = "gauge_stop" THEN <<>> ELSE child_output)
    /\ UNCHANGED <<DIALOG, gauge_process, child, buf, ncalls, rd>>
    /\ UNCHANGED nfaults
    /\ UNCHANGED helper_vars

\* ------------------------------------------------------------ gauge_start
GaugeStart ==
    /\ ncalls < MaxCalls
    /\ Enter("gauge_start", "gs_pipe")
    /\ ncalls' = ncalls + 1
    /\ UNCHANGED <<DIALOG, locals, parent_fds>>
    /\ UNCHANGED helper_vars

\* (child_stdin_rfd, child_stdin_wfd) = os.pipe(); then _call_program is
\* called with redir_child_stdin_from_fd and close_fds.
GaugeStart_pipe(ok) ==
    /\ pc = "gs_pipe"
    /\ Fault(ok)
    /\ IF ok
       THEN /\ child_stdin_rfd' = Rfd(ncalls, "in")
            /\ child_stdin_wfd' = Wfd(ncalls, "in")
            /\ parent_fds' = parent_fds \cup {Rfd(ncalls, "in"), Wfd(ncalls, "in")}
            /\ pc' = "cp_args"
            /\ UNCHANGED <<frame, child_pid, child_output_rfd, child_output_wfd,
                           exit_info, exit_code, child_output, result>>
       ELSE /\ Raise("OSError", 0)
            /\ UNCHANGED parent_fds
    /\ UNCHANGED <<DIALOG, gauge_process, child, buf, ncalls, rd>>
    /\ UNCHANGED helper_vars

\* os.close(child_stdin_rfd), then self._gauge_process = {...} with
\* "stdin": os.fdopen(child_stdin_wfd, "w"); gauge_start returns.
GaugeStart_close(ok, released) ==
    /\ pc = "gs_close"
    /\ Fault(ok)
    /\ (ok => released)
    /\ IF ok
       THEN /\ parent_fds' = parent_fds \ {child_stdin_rfd}
            /\ gauge_process' = [set |-> TRUE, pid |-> child_pid,
                                 stdin |-> child_stdin_wfd, stdin_open |-> TRUE,
                                 child_output_rfd |-> child_output_rfd,
                                 written |-> "", updates |-> <<>>]
            /\ Return(-1, <<>>)
       ELSE /\ parent_fds' = IF released THEN parent_fds \ {child_stdin_rfd}
                             ELSE parent_fds
            /\ Raise("OSError", 0)
            /\ UNCHANGED gauge_process
    /\ UNCHANGED <<DIALOG, child, buf, ncalls, rd>>
    /\ UNCHANGED helper_vars

\* ----------------------------------------------------------- gauge_update
\* Values a caller may pass as percent: two integers and a string.
Percents == {[type |-> "int", val |-> 5], [type |-> "int", val |-> 95],
             [type |-> "str", str |-> "5"]}

\* Values a caller may pass as text.
Texts == {"msg"}

\* "{0}".format(percent) for an integer.
FormatInt(percent) == ToString(percent.val)

\* Lines 1702-1705 with the closing sentinel line left out, for comparison.
GaugeData_NoSentinel(percent, text, update_text) ==
    IF update_text
    THEN "XXX\n" \o FormatInt(percent) \o "\n" \o text \o "\n"
    ELSE FormatInt(percent) \o "\n"

\* Lines 1702-1705: gauge_data.
GaugeData(percent, text, update_text) ==
    IF update_text
    THEN "XXX\n" \o FormatInt(percent) \o "\n" \o text \o "\nXXX\n"
    ELSE FormatInt(percent) \o "\n"

\* Whether some process has the read end of pipe <<k, kind>> open.
HasReader(k, kind) ==
    \/ Rfd(k, kind) \in parent_fds
    \/ \E c \in Pids : Rfd(k, kind) \in ChildEnds(c)

\* How a gauge_update call ends: the isinstance test, then the lookup of
\* self._gauge_process, then write() and flush() on p["stdin"] inside
\* OSErrorHandling(). Writing to a closed file object is a ValueError;
\* writing to a pipe nobody reads from is an OSError (EPIPE).
UpdateOutcome(percent, ok) ==
    IF percent.type # "int" THEN "BadPythonDialogUsage"
    ELSE IF ~gauge_process.set THEN "AttributeError"
    ELSE IF ~gauge_process.stdin_open THEN "ValueError"
    ELSE IF ~HasReader(gauge_process.stdin[1], "in") \/ ~ok
         THEN OSErrorHandling("OSError")
    ELSE "none"

\* gauge_update(percent, text, update_text), lines 1697-1708. The call makes
\* one system call at most, the write of the flushed data.
GaugeUpdate(percent, text, update_text, ok) ==
    /\ pc = "idle"
    /\ Len(gauge_process.updates) < MaxUpdates
    /\ IF /\ percent.type = "int" /\ gauge_process.set
          /\ gauge_process.stdin_open /\ HasReader(gauge_process.stdin[1], "in")
       THEN Fault(ok)
       ELSE ok /\ UNCHANGED nfaults
    /\ LET exc == UpdateOutcome(percent, ok) IN
       /\ result' = [kind |-> IF exc = "none" THEN "return" ELSE "raise",
                     op |-> "gauge_update", pid |-> 0, exc |-> exc,
                     arg |-> 0, code |-> -1, text |-> <<>>]
       /\ gauge_process' =
             IF exc = "none"
             THEN [gauge_process EXCEPT
                     !.written = @ \o GaugeData(percent, text, update_text),
                     !.updates = Append(@, [percent |-> percent.val,
                                            text |-> text,
                                            update_text |-> update_text])]
             ELSE gauge_process
    /\ rd' = "no"
    /\ child' = [k \in Pids |-> Forget(k)]
    /\ buf' = [p \in PipeIds |-> IF Retained(p) THEN buf[p] ELSE <<>>]
    /\ UNCHANGED <<DIALOG, frame, pc, locals, parent_fds, ncalls>>
    /\ UNCHANGED helper_vars

\* ------------------------------------------------------------- gauge_stop
\* p = self._gauge_process: an AttributeError when gauge_start never got as
\* far as setting it.
GaugeStop ==
    /\ Enter("gauge_stop", "gx_close")
    /\ IF gauge_process.set
       THEN /\ child_pid' = gauge_process.pid
            /\ child_output_rfd' = gauge_process.child_output_rfd
            /\ UNCHANGED <<child_output_wfd, child_stdin_rfd, child_stdin_wfd,
                           exit_info, exit_code, child_output>>
       ELSE UNCHANGED locals
    /\ UNCHANGED <<DIALOG, parent_fds, ncalls>>
    /\ UNCHANGED helper_vars

\* For comparison, a gauge_stop that waits without closing p["stdin"]:
GaugeStop_close_NoClose(ok) ==
    /\ pc = "gx_close"
    /\ ok /\ UNCHANGED nfaults
    /\ IF ~gauge_process.set
       THEN /\ Raise("AttributeError", 0)
            /\ UNCHANGED <<gauge_process, parent_fds>>
       ELSE /\ pc' = "wt_wait"
            /\ UNCHANGED <<gauge_process, parent_fds, frame, locals, result>>
    /\ UNCHANGED <<DIALOG, child, buf, ncalls, rd>>
    /\ UNCHANGED helper_vars

\* p["stdin"].close() inside OSErrorHandling(); closing a file object that is
\* already closed does nothing. Then _wait_for_program_termination is called.
GaugeStop_close(ok) ==
    /\ pc = "gx_close"
    /\ Fault(ok)
    /\ (ok \/ (gauge_process.set /\ gauge_process.stdin_open))
    /\ IF ~gauge_process.set
       THEN /\ Raise("AttributeError", 0)
            /\ UNCHANGED <<gauge_process, parent_fds>>
       ELSE /\ gauge_process' = [gauge_process EXCEPT !.stdin_open = FALSE]
            /\ parent_fds' = IF gauge_process.stdin_open
                             THEN parent_fds \ {gauge_process.stdin}
                             ELSE parent_fds
            /\ IF ok \/ ~gauge_process.stdin_open
               THEN /\ pc' = "wt_wait"
                    /\ UNCHANGED <<frame, locals, result>>
               ELSE Raise(OSErrorHandling("OSError"), 0)
    /\ UNCHANGED <<DIALOG, child, buf, ncalls, rd>>
    /\ UNCHANGED helper_vars

\* ------------------------------------------------------------------- Next
Next ==
    \/ \E v \in ConfigCodes : AssignDialogError(v)
    \/ Perform
    \/ \E known \in BOOLEAN : CallProgram_args(known)
    \/ \E ok \in BOOLEAN : CallProgram_pipe(ok)
    \/ \E ok \in BOOLEAN : CallProgram_fork(ok)
    \/ \E ok, released \in BOOLEAN : CallProgram_close(ok, released)
    \/ CallProgram_return
    \/ /\ pc = "wt_wait"
       /\ \E ok, core \in BOOLEAN, code \in ExitCodes, sig \in Signals :
            Wait_waitpid(ok, code, sig, core)
    \/ Wait_classify
    \/ \E ok \in BOOLEAN : Wait_read(ok)
    \/ Wait_close
    \/ GaugeStart
    \/ \E ok \in BOOLEAN : GaugeStart_pipe(ok)
    \/ \E ok, released \in BOOLEAN : GaugeStart_close(ok, released)
    \/ \E percent \in Percents, text \in Texts, update_text, ok \in BOOLEAN :
          GaugeUpdate(percent, text, update_text, ok)
    \/ GaugeStop
    \/ \E ok \in BOOLEAN : GaugeStop_close(ok)
    \/ \E k \in Pids :
          /\ child[k].st = "forked"
          /\ \E fail \in {"none", "close", "dup", "dup2_out", "dup2_in", "execve"},
                n \in 0..2 :
                  Child_before_exec(k, fail, n)
    \/ \E k \in Pids, b \in Byte : Backend_write(k, b)
    \/ \E k \in Pids : Backend_exit(k)
    \/ \E k \in Pids : Escaped_exit(k)
    \/ \E k \in Pids : Child_killed(k)

Spec == Init /\ [][Next]_vars

\* ================================================ module-level helper functions
\* A token of a command line is a sequence of characters. These bound the
\* tokens and the token lists that the functions below are applied to.
MaxTokenLen == 3
MaxArgs == 3
MaxOnOffLen == 4
MaxOptions == 2

BoundedSeq(S, n) == UNION {[1..m -> S] : m \in 0..n}

TokenChars == {"-", "x"}
Tokens == BoundedSeq(TokenChars, MaxTokenLen)
ArgLists == BoundedSeq(Tokens, MaxArgs)

\* What a call did: it returned val, or raised the exception exc.
Returns(v) == [kind |-> "return", val |-> v, exc |-> "none"]
Raises(e) == [kind |-> "raise", val |-> <<>>, exc |-> e]

\* str.startswith(prefix)
startswith(arg, prefix) ==
    /\ Len(arg) >= Len(prefix)
    /\ SubSeq(arg, 1, Len(prefix)) = prefix

\* For comparison, an escaping whose test is arg.startswith("-"):
RECURSIVE _dash_escape_OneHyphen(_)
_dash_escape_OneHyphen(args) ==
    IF args = <<>> THEN <<>>
    ELSE (IF startswith(Head(args), <<"-">>)
          THEN << <<"-", "-">>, Head(args) >>
          ELSE << Head(args) >>) \o _dash_escape_OneHyphen(Tail(args))

\* Lines 263-283: res collects, for each arg in order, ("--", arg) when
\* arg.startswith("--") and arg otherwise.
RECURSIVE _dash_escape(_)
_dash_escape(args) ==
    IF args = <<>> THEN <<>>
    ELSE (IF startswith(Head(args), <<"-", "-">>)
          THEN << <<"-", "-">>, Head(args) >>
          ELSE << Head(args) >>) \o _dash_escape(Tail(args))

\* For comparison, a variant that escapes the first element too:
_dash_escape_nf_EscapeFirst(args) ==
    IF args = <<>> THEN Raises("PythonDialogBug")
    ELSE Returns(_dash_escape(args))

\* Lines 287-297: PythonDialogBug when args is empty, otherwise args[0] in
\* front of _dash_escape(args[1:]).
_dash_escape_nf(args) ==
    IF args = <<>> THEN Raises("PythonDialogBug")
    ELSE Returns(<<args[1]>> \o _dash_escape(Tail(args)))

\* ---------------------------------------------------------- Python values
PyBool(b) == [type |-> "bool", bool |-> b]
PyInt(n) == [type |-> "int", int |-> n]
PyStr(s) == [type |-> "str", str |-> s]
PyNone == [type |-> "none"]
PyFloat(n) == [type |-> "float", whole |-> n]
PyTuple(t) == [type |-> "tuple", items |-> t]

\* The value of v in a boolean context ("if enable:", "if val").
Truth(v) ==
    CASE v.type = "bool" -> v.bool
      [] v.type = "int" -> v.int # 0
      [] v.type = "float" -> v.whole # 0
      [] v.type = "str" -> v.str # <<>>
      [] v.type = "tuple" -> v.items # <<>>
      [] v.type = "none" -> FALSE

DigitChars == <<"0", "1", "2", "3", "4", "5", "6", "7", "8", "9">>

RECURSIVE NatStr(_)
NatStr(n) ==
    IF n < 10 THEN <<DigitChars[n + 1]>>
    ELSE NatStr(n \div 10) \o <<DigitChars[(n % 10) + 1]>>

\* str(v) for the values passed here: a string is returned as it is, an
\* integer in decimal notation.
str(v) ==
    CASE v.type = "str" -> v.str
      [] v.type = "int" -> IF v.int < 0 THEN <<"-">> \o NatStr(-v.int)
                           ELSE NatStr(v.int)
      [] v.type = "bool" -> IF v.bool THEN <<"T", "r", "u", "e">>
                            ELSE <<"F", "a", "l", "s", "e">>
      [] v.type = "none" -> <<"N", "o", "n", "e">>

\* ------------------------------------------------------------- _to_onoff
\* str.lower() on the characters used here.
Lower(c) ==
    CASE c = "O" -> "o"
      [] c = "N" -> "n"
      [] c = "F" -> "f"
      [] OTHER -> c

\* re.compile(word + "$", re.IGNORECASE).match(s): the word is matched at
\* the start of s without regard to case, and "$" matches at the end of s
\* and also just before a newline that is the last character of s.
MatchWordDollar(word, s) ==
    /\ Len(s) >= Len(word)
    /\ \A i \in 1..Len(word) : Lower(s[i]) = word[i]
    /\ \/ Len(s) = Len(word)
       \/ Len(s) = Len(word) + 1 /\ s[Len(s)] = "\n"

\* Lines 242-245.
_on_rec(s) == MatchWordDollar(<<"o", "n">>, s)
_off_rec(s) == MatchWordDollar(<<"o", "f", "f">>, s)

\* Lines 451-476.
_to_onoff(val) ==
    IF val.type \in {"bool", "int"}
    THEN Returns(IF Truth(val) THEN <<"o", "n">> ELSE <<"o", "f", "f">>)
    ELSE IF val.type = "str" /\ _on_rec(val.str) THEN Returns(<<"o", "n">>)
    ELSE IF val.type = "str" /\ _off_rec(val.str) THEN Returns(<<"o", "f", "f">>)
    ELSE Raises("BadPythonDialogUsage")

\* ------------------------------------------------- _compute_common_args
\* For comparison, a flag that the string "off" in any case turns off:
_simple_option_OffString(option, enable) ==
    IF enable.type = "str" /\ _off_rec(enable.str) THEN <<>>
    ELSE IF Truth(enable) THEN <<option>> ELSE <<>>

\* Lines 299-305.
_simple_option(option, enable) ==
    IF Truth(enable) THEN <<option>> ELSE <<>>

\* Lines 313-388, one record for each key of the dictionary. rule tells what
\* the lambda does with its argument: "simple" passes it to _simple_option,
\* "plain" puts it after the option as it is, "str" applies str() to it,
\* "coords" applies str() to its items 0 and 1; each but "simple" then calls
\* _dash_escape_nf. option is the dialog option without its two hyphens.
_common_args_syntax ==
    {[key |-> "ascii_lines", rule |-> "simple", option |-> "ascii-lines"],
     [key |-> "aspect", rule |-> "str", option |-> "aspect"],
     [key |-> "backtitle", rule |-> "plain", option |-> "backtitle"],
     [key |-> "beep", rule |-> "simple", option |-> "beep"],
     [key |-> "beep_after", rule |-> "simple", option |-> "beep-after"],
     [key |-> "begin", rule |-> "coords", option |-> "begin"],
     [key |-> "cancel_label", rule |-> "plain", option |-> "cancel-label"],
     [key |-> "cancel", rule |-> "plain", option |-> "cancel-label"],
     [key |-> "clear", rule |-> "simple", option |-> "clear"],
     [key |-> "colors", rule |-> "simple", option |-> "colors"],
     [key |-> "column_separator", rule |-> "plain", option |-> "column-separator"],
     [key |-> "cr_wrap", rule |-> "simple", option |-> "cr-wrap"],
     [key |-> "create_rc", rule |-> "plain", option |-> "create-rc"],
     [key |-> "date_format", rule |-> "plain", option |-> "date-format"],
     [key |-> "defaultno", rule |-> "simple", option |-> "defaultno"],
     [key |-> "default_button", rule |-> "plain", option |-> "default-button"],
     [key |-> "default_item", rule |-> "plain", option |-> "default-item"],
     [key |-> "exit_label", rule |-> "plain", option |-> "exit-label"],
     [key |-> "extra_button", rule |-> "simple", option |-> "extra-button"],
     [key |-> "extra_label", rule |-> "plain", option |-> "extra-label"],
     [key |-> "help", rule |-> "simple", option |-> "help"],
     [key |-> "help_button", rule |-> "simple", option |-> "help-button"],
     [key |-> "help_label", rule |-> "plain", option |-> "help-label"],
     [key |-> "hfile", rule |-> "plain", option |-> "hfile"],
     [key |-> "hline", rule |-> "plain", option |-> "hline"],
     [key |-> "ignore", rule |-> "simple", option |-> "ignore"],
     [key |-> "insecure", rule |-> "simple", option |-> "insecure"],
     [key |-> "item_help", rule |-> "simple", option |-> "item-help"],
     [key |-> "keep_tite", rule |-> "simple", option |-> "keep-tite"],
     [key |-> "keep_window", rule |-> "simple", option |-> "keep-window"],
     [key |-> "max_input", rule |-> "str", option |-> "max-input"],
     [key |-> "no_cancel", rule |-> "simple", option |-> "no-cancel"],
     [key |-> "nocancel", rule |-> "simple", option |-> "nocancel"],
     [key |-> "no_collapse", rule |-> "simple", option |-> "no-collapse"],
     [key |-> "no_kill", rule |-> "simple", option |-> "no-kill"],
     [key |-> "no_label", rule |-> "plain", option |-> "no-label"],
     [key |-> "no_lines", rule |-> "simple", option |-> "no-lines"],
     [key |-> "no_mouse", rule |-> "simple", option |-> "no-mouse"],
     [key |-> "no_nl_expand", rule |-> "simple", option |-> "no-nl-expand"],
     [key |-> "no_ok", rule |-> "simple", option |-> "no-ok"],
     [key |-> "no_shadow", rule |-> "simple", option |-> "no-shadow"],
     [key |-> "no_tags", rule |-> "simple", option |-> "no-tags"],
     [key |-> "ok_label", rule |-> "plain", option |-> "ok-label"],
     [key |-> "print_maxsize", rule |-> "simple", option |-> "print-maxsize"],
     [key |-> "print_size", rule |-> "simple", option |-> "print-size"],
     [key |-> "print_version", rule |-> "simple", option |-> "print-version"],
     [key |-> "scrollbar", rule |-> "simple", option |-> "scrollbar"],
     [key |-> "separate_output", rule |-> "simple", option |-> "separate-output"],
     [key |-> "separate_widget", rule |-> "plain", option |-> "separate-widget"],
     [key |-> "shadow", rule |-> "simple", option |-> "shadow"],
     [key |-> "size_err", rule |-> "simple", option |-> "size-err"],
     [key |-> "sleep", rule |-> "str", option |-> "sleep"],
     [key |-> "stderr", rule |-> "simple", option |-> "stderr"],
     [key |-> "stdout", rule |-> "simple", option |-> "stdout"],
     [key |-> "tab_correct", rule |-> "simple", option |-> "tab-correct"],
     [key |-> "tab_len", rule |-> "str", option |-> "tab-len"],
     [key |-> "time_format", rule |-> "plain", option |-> "time-format"],
     [key |-> "timeout", rule |-> "str", option |-> "timeout"],
     [key |-> "title", rule |-> "plain", option |-> "title"],
     [key |-> "trace", rule |-> "plain", option |-> "trace"],
     [key |-> "trim", rule |-> "simple", option |-> "trim"],
     [key |-> "version", rule |-> "simple", option |-> "version"],
     [key |-> "visit_items", rule |-> "simple", option |-> "visit-items"],
     [key |-> "yes_label", rule |-> "plain", option |-> "yes-label"]}

\* The command-line token for an option of the table.
OptionToken(name) == <<"-", "-", name>>

\* coords[i] for the values passed here (i counted from 0): an item of a
\* tuple, a character of a string, IndexError when there is none, TypeError
\* for a value that cannot be subscripted.
Subscript(coords, i) ==
    CASE coords.type = "tuple" ->
             IF i < Len(coords.items) THEN Returns(coords.items[i + 1])
             ELSE Raises("IndexError")
      [] coords.type = "str" ->
             IF i < Len(coords.str) THEN Returns(PyStr(<<coords.str[i + 1]>>))
             ELSE Raises("IndexError")
      [] OTHER -> Raises("TypeError")

\* Line 501 for one item of the mapping: _common_args_syntax[option](value).
\* A value that is not a string has no startswith() for _dash_escape.
TranslateOption(option, value) ==
    IF option \notin {r.key : r \in _common_args_syntax}
    THEN Raises("KeyError")
    ELSE LET r == CHOOSE r \in _common_args_syntax : r.key = option
             tok == OptionToken(r.option)
         IN CASE r.rule = "simple" -> Returns(_simple_option(tok, value))
              [] r.rule = "plain" ->
                     IF value.type = "str"
                     THEN _dash_escape_nf(<<tok, value.str>>)
                     ELSE Raises("AttributeError")
              [] r.rule = "str" -> _dash_escape_nf(<<tok, str(value)>>)
              [] r.rule = "coords" ->
                     LET y == Subscript(value, 0)
                         x == Subscript(value, 1)
                     IN IF y.kind = "raise" THEN y
                        ELSE IF x.kind = "raise" THEN x
                        ELSE _dash_escape_nf(<<tok, str(y.val), str(x.val)>>)

\* Lines 499-502: the items of the mapping in their order; the first
\* exception ends the loop.
RECURSIVE _compute_common_args(_)
_compute_common_args(mapping) ==
    IF mapping = <<>> THEN Returns(<<>>)
    ELSE LET first == TranslateOption(mapping[1][1], mapping[1][2])
             rest == _compute_common_args(Tail(mapping))
         IN IF first.kind = "raise" THEN first
            ELSE IF rest.kind = "raise" THEN rest
            ELSE Returns(first.val \o rest.val)

\* ------------------------------------------------- _path_to_executable
\* A path, and the value of PATH, is a sequence of symbols: "/" and ":",
\* a name without either, or a directory name such as "/bin".
MaxPathLen == 4

SlashSymbols == {"/", "/bin", "/usr/bin"}
HasSlash(f) == \E i \in 1..Len(f) : f[i] \in SlashSymbols

\* os.path.join(d, prog_name) for a prog_name without "/" and a d that does
\* not end with one.
join(d, prog_name) == IF d = <<>> THEN prog_name ELSE d \o <<"/">> \o prog_name

\* PATH.split(":")
RECURSIVE Split(_)
Split(PATH) ==
    IF \A i \in 1..Len(PATH) : PATH[i] # ":" THEN <<PATH>>
    ELSE LET i == CHOOSE i \in 1..Len(PATH) :
                      PATH[i] = ":" /\ \A h \in 1..(i - 1) : PATH[h] # ":"
         IN <<SubSeq(PATH, 1, i - 1)>> \o Split(SubSeq(PATH, i + 1, Len(PATH)))

\* What there is at a path: nothing, a directory (searchable and readable),
\* or a regular file that cannot be read, that can be read but not
\* executed, or that can be read and executed.
FileKinds == {"missing", "directory", "unreadable", "not_executable", "ok"}
KindOf(path) == IF path \in DOMAIN files THEN files[path] ELSE "missing"

\* os.path.isfile(path) and os.access(path, os.R_OK | os.X_OK)
isfile(path) == KindOf(path) \in {"unreadable", "not_executable", "ok"}
access(path) == KindOf(path) \in {"directory", "ok"}

\* os.getenv("PATH", ":/bin:/usr/bin")
DefaultPATH == <<":", "/bin", ":", "/usr/bin">>
getenv_PATH == IF "PATH" \in DOMAIN environ THEN environ["PATH"] ELSE DefaultPATH

NotFound == [found |-> FALSE, path |-> <<>>]
Found(path) == [found |-> TRUE, path |-> path]

\* For comparison, a search that returns the last directory that qualifies:
RECURSIVE SearchPath_Last(_, _)
SearchPath_Last(dirs, prog_name) ==
    IF dirs = <<>> THEN NotFound
    ELSE LET file_path == join(dirs[Len(dirs)], prog_name)
         IN IF isfile(file_path) /\ access(file_path) THEN Found(file_path)
            ELSE SearchPath_Last(SubSeq(dirs, 1, Len(dirs) - 1), prog_name)

\* Lines 407-412: the loop over the directories of PATH.
RECURSIVE SearchPath(_, _)
SearchPath(dirs, prog_name) ==
    IF dirs = <<>> THEN NotFound
    ELSE LET file_path == join(Head(dirs), prog_name)
         IN IF isfile(file_path) /\ access(file_path) THEN Found(file_path)
            ELSE SearchPath(Tail(dirs), prog_name)

\* Lines 391-412; None is NotFound.
_find_in_path(prog_name) == SearchPath(Split(getenv_PATH), prog_name)

\* Lines 415-448.
_path_to_executable(f) ==
    IF HasSlash(f)
    THEN IF isfile(f) /\ access(f) THEN Returns(f)
         ELSE Raises("ExecutableNotFound")
    ELSE LET res == _find_in_path(f)
         IN IF res.found THEN Returns(res.path)
            ELSE Raises("ExecutableNotFound")

\* Names passed to the constructor, values of PATH (or none), and what
\* there is at the paths a search can come to.
ProgramNames == {<<"dialog">>, <<"/bin", "/", "dialog">>,
                 <<"/usr/bin", "/", "dialog">>}
PathEnvironments ==
    {<<>>} \cup {("PATH" :> p) :
                   p \in BoundedSeq({":", "/bin", "/usr/bin"}, MaxPathLen)}
ProgramFiles == [ProgramNames -> FileKinds]

\* ------------------------------------------------------------- the calls
\* Values passed to _to_onoff.
OnOffChars == {"o", "O", "n", "N", "f", "F", "x", "\n"}
OnOffValues ==
    {PyBool(b) : b \in BOOLEAN} \cup {PyInt(n) : n \in {-1, 0, 1, 5}}
        \cup {PyStr(s) : s \in BoundedSeq(OnOffChars, MaxOnOffLen)}
        \cup {PyNone, PyFloat(0), PyFloat(1)}

\* Keyword arguments passed to a widget: keys of each rule of the table and
\* one that is not in it, with values of every type.
OptionKeys == {"no_shadow", "title", "cancel", "aspect", "begin", "nosuch"}
OptionValues ==
    {PyBool(TRUE), PyBool(FALSE), PyInt(0), PyInt(5), PyNone,
     PyStr(<<>>), PyStr(<<"x">>), PyStr(<<"o", "f", "f">>),
     PyStr(<<"-", "-", "x">>), PyStr(<<"-", "-">>)}
Coordinates ==
    {PyTuple(<<PyInt(1), PyInt(2)>>),
     PyTuple(<<PyStr(<<"-", "-", "x">>), PyInt(5)>>),
     PyTuple(<<PyInt(1)>>)}
Items ==
    {<<k, v>> : k \in OptionKeys, v \in OptionValues}
        \cup {<<"begin", c>> : c \in Coordinates}
Mappings ==
    {m \in BoundedSeq(Items, MaxOptions) :
        \A i, j \in 1..Len(m) : i # j => m[i][1] # m[j][1]}

Called(fn, args) == call = [fn |-> fn, args |-> args, res |-> NoRes]

\* The process is as after construction and one of the functions is about
\* to be called with some argument.
HelpersInit ==
    /\ ProcessInit
    /\ \/ /\ InstanceInit
          /\ \/ \E args \in ArgLists : Called("_dash_escape", args)
             \/ \E args \in ArgLists : Called("_dash_escape_nf", args)
             \/ \E val \in OnOffValues : Called("_to_onoff", val)
             \/ \E mapping \in Mappings : Called("_compute_common_args", mapping)
       \/ /\ dialog_persistent_arglist = <<>>
          /\ persistent_calls = <<>>
          /\ DIALOGRC = [type |-> "none"]
          /\ compat = "dialog"
          /\ use_stdout = FALSE
          /\ debug = NoDebug
          /\ environ \in PathEnvironments
          /\ files \in ProgramFiles
          /\ temp = NoTemp
          /\ box = NoBox
          /\ \E f \in ProgramNames : Called("_path_to_executable", f)

\* The call is made. The function works on call.args and leaves it alone.
Finish(fn, res) ==
    /\ call.fn = fn
    /\ call.res = NoRes
    /\ call' = [call EXCEPT !.res = res]
    /\ UNCHANGED <<process_vars, instance_vars, files, temp, box>>

Call_dash_escape == Finish("_dash_escape", Returns(_dash_escape(call.args)))

Call_dash_escape_nf == Finish("_dash_escape_nf", _dash_escape_nf(call.args))

Call_to_onoff == Finish("_to_onoff", _to_onoff(call.args))

Call_compute_common_args ==
    Finish("_compute_common_args", _compute_common_args(call.args))

Call_path_to_executable ==
    Finish("_path_to_executable", _path_to_executable(call.args))

HelpersNext ==
    \/ Call_path_to_executable
    \/ Call_dash_escape
    \/ Call_dash_escape_nf
    \/ Call_to_onoff
    \/ Call_compute_common_args

HelpersSpec == HelpersInit /\ [][HelpersNext]_vars

\* ===================================== command line and environment of a call
\* Length of the cmdargs of a call, and number of calls that add persistent
\* arguments.
MaxCmdArgs == 2
MaxPersistentCalls == 2

\* self._dialog_prg, the path found by the constructor.
_dialog_prg == <<"/usr/bin/dialog">>

\* Request tokens a widget passes as cmdargs (never an empty list: each
\* widget starts them with its own option), values of dash_escape, and
\* keyword arguments.
CmdArgs ==
    BoundedSeq({<<"-", "-", "x">>, <<"x">>, <<"-", "-">>}, MaxCmdArgs) \ {<<>>}
DashEscapeModes == {"non-first", "none", "first"}
Kwargs ==
    {<<>>,
     << <<"title", PyStr(<<"-", "-", "x">>)>> >>,
     << <<"no_shadow", PyBool(TRUE)>> >>,
     << <<"nosuch", PyNone>> >>}

\* Arguments of add_persistent_args and of set_background_title.
PersistentArgs == {<< <<"-", "-", "x">> >>, << <<"x">>, <<"-", "-">> >>}
BackgroundTitles == {<<"x">>, <<"-", "-", "x">>}

\* Environments of the calling process: variable names with their values.
EnvVarOf(status) == "DIALOG_" \o status
Environments ==
    {<<>>,
     ("HOME" :> <<"h">>),
     ("HOME" :> <<"h">>) @@ ("DIALOG_OK" :> <<"9">>)
         @@ ("DIALOGRC" :> <<"o", "l", "d">>)}

\* Lines 734-765: the constructor with its DIALOGRC, compat and use_stdout
\* arguments.  self.use_stdout is True for Xdialog and False otherwise
\* unless the argument is given (753-760); when it is True "--stdout" is
\* added through add_persistent_args (761-762).
Construct(rc, compat_, use_stdout_) ==
    /\ DIALOGRC = rc
    /\ compat = compat_
    /\ DIALOG = dialog_exit_status_vars
    /\ use_stdout = IF use_stdout_.type = "none" THEN compat_ = "Xdialog"
                    ELSE use_stdout_.bool
    /\ debug = NoDebug
    /\ dialog_persistent_arglist
         = IF use_stdout THEN <<OptionToken("stdout")>> ELSE <<>>
    /\ persistent_calls
         = IF use_stdout
           THEN <<[method |-> "add_persistent_args",
                   args |-> <<OptionToken("stdout")>>]>>
           ELSE <<>>

process_rest == <<gauge_process, frame, pc, child_pid, child_output_rfd,
                  child_output_wfd, child_stdin_rfd, child_stdin_wfd, exit_info,
                  exit_code, child_output, result, parent_fds, child, buf,
                  ncalls, nfaults, rd>>

InvocationInit ==
    /\ ProcessInit
    /\ call = NoCall
    /\ environ \in Environments
    /\ files = <<>>
    /\ temp = NoTemp
    /\ box = NoBox
    /\ \E rc \in {PyNone, PyStr(<<"r", "c">>)},
          compat_ \in {"dialog", "Xdialog"},
          use_stdout_ \in {PyNone, PyBool(TRUE), PyBool(FALSE)} :
             Construct(rc, compat_, use_stdout_)

\* Lines 803-815: self.dialog_persistent_arglist.extend(args).
add_persistent_args(args) ==
    /\ call = NoCall
    /\ Len(persistent_calls) < MaxPersistentCalls
    /\ dialog_persistent_arglist' = dialog_persistent_arglist \o args
    /\ persistent_calls' = Append(persistent_calls,
                                  [method |-> "add_persistent_args", args |-> args])
    /\ UNCHANGED <<process_vars, call, DIALOGRC, compat, use_stdout, debug,
                   environ, files, temp, box>>

\* Lines 817-823: add_persistent_args(dash_escape_nf(("--backtitle", text))).
set_background_title(text) ==
    /\ call = NoCall
    /\ Len(persistent_calls) < MaxPersistentCalls
    /\ dialog_persistent_arglist'
         = dialog_persistent_arglist
             \o _dash_escape_nf(<<OptionToken("backtitle"), text>>).val
    /\ persistent_calls' = Append(persistent_calls,
                                  [method |-> "set_background_title", args |-> text])
    /\ UNCHANGED <<process_vars, call, DIALOGRC, compat, use_stdout, debug,
                   environ, files, temp, box>>

\* An exit code attribute of the instance is given another value.
AssignCode(status, v) ==
    /\ call = NoCall
    /\ DIALOG' = [DIALOG EXCEPT ![status] = v]
    /\ UNCHANGED <<process_rest, helper_vars>>

\* For comparison, an environment in which the variables that the caller
\* has already set are kept:
new_environ_KeepCallers ==
    [var \in DOMAIN environ \cup {EnvVarOf(st) : st \in StatusNames}
               \cup (IF DIALOGRC.type = "none" THEN {} ELSE {"DIALOGRC"}) |->
        IF var \in DOMAIN environ THEN environ[var]
        ELSE IF var = "DIALOGRC" THEN DIALOGRC.str
        ELSE str(PyInt(DIALOG[CHOOSE st \in StatusNames : EnvVarOf(st) = var]))]

\* Lines 943-949: a new dictionary updated from os.environ, then the seven
\* DIALOG_* variables set to str() of the attributes, then DIALOGRC when
\* the instance has the attribute.
new_environ ==
    [var \in DOMAIN environ \cup {EnvVarOf(st) : st \in StatusNames}
               \cup (IF DIALOGRC.type = "none" THEN {} ELSE {"DIALOGRC"}) |->
        IF \E st \in StatusNames : EnvVarOf(st) = var
        THEN str(PyInt(DIALOG[CHOOSE st \in StatusNames : EnvVarOf(st) = var]))
        ELSE IF var = "DIALOGRC" /\ DIALOGRC.type # "none" THEN DIALOGRC.str
        ELSE environ[var]]

\* For comparison, a command line that always has the persistent arguments:
Arglist_AlwaysPersistent(cmdargs, dash_escape, use_persistent_args, kwargs) ==
    LET escaped == IF dash_escape = "non-first" THEN _dash_escape_nf(cmdargs)
                   ELSE IF dash_escape = "none" THEN Returns(cmdargs)
                   ELSE Raises("PythonDialogBug")
        common == _compute_common_args(kwargs)
    IN IF escaped.kind = "raise" THEN escaped
       ELSE IF common.kind = "raise" THEN common
       ELSE Returns(<<_dialog_prg>> \o dialog_persistent_arglist
                        \o common.val \o escaped.val)

\* Lines 951-964: cmdargs escaped as dash_escape says, then arglist made of
\* self._dialog_prg, the persistent arguments when use_persistent_args, the
\* common options computed from kwargs, and cmdargs.
Arglist(cmdargs, dash_escape, use_persistent_args, kwargs) ==
    LET escaped == IF dash_escape = "non-first" THEN _dash_escape_nf(cmdargs)
                   ELSE IF dash_escape = "none" THEN Returns(cmdargs)
                   ELSE Raises("PythonDialogBug")
        common == _compute_common_args(kwargs)
    IN IF escaped.kind = "raise" THEN escaped
       ELSE IF common.kind = "raise" THEN common
       ELSE Returns(<<_dialog_prg>>
                        \o (IF use_persistent_args
                            THEN dialog_persistent_arglist ELSE <<>>)
                        \o common.val \o escaped.val)

\* Lines 870-892: the command is written to self._debug_logfile, after a
\* separator line unless it is the first one, and _debug_first_output is
\* set to False.
_write_command_to_file(env, arglist) ==
    [debug EXCEPT !.log = Append(@, [separator |-> ~debug.first_output,
                                     env |-> env, arglist |-> arglist,
                                     flushed |-> debug.always_flush]),
                  !.first_output = FALSE]

\* Lines 940-964 of _call_program, up to the creation of the pipe: what
\* os.execve will be given as arguments and environment, or the exception
\* that ends the call before the pipe exists (lines 966-970 write the
\* command to the debug log file when self._debug_enabled, and
\* self._debug_logfile.write is an AttributeError when the attribute is
\* None); and the descriptor of the
\* child that line 999 connects the result pipe to,
\*   os.dup2(child_output_wfd, 1 if self.use_stdout else 2)
\* A run is followed up to its first call.
CallProgram_arglist(cmdargs, dash_escape, use_persistent_args, kwargs) ==
    LET a == Arglist(cmdargs, dash_escape, use_persistent_args, kwargs)
        logs == a.kind = "return" /\ debug.enabled
    IN /\ call = NoCall
       /\ call' = [fn |-> "_call_program",
                   args |-> [cmdargs |-> cmdargs, dash_escape |-> dash_escape,
                             use_persistent_args |-> use_persistent_args,
                             kwargs |-> kwargs],
                   res |-> IF a.kind = "raise" THEN a
                           ELSE IF logs /\ debug.logfile = "None"
                           THEN Raises("AttributeError")
                           ELSE Returns([arglist |-> a.val,
                                         new_environ |-> new_environ,
                                         output_fd |-> IF use_stdout THEN 1
                                                       ELSE 2])]
       /\ debug' = IF logs /\ debug.logfile # "None"
                   THEN _write_command_to_file(new_environ, a.val)
                   ELSE debug
       /\ UNCHANGED <<process_vars, dialog_persistent_arglist,
                      persistent_calls, DIALOGRC, compat, use_stdout, environ,
                      files, temp, box>>

\* Lines 1195-1196: backend_version calls
\*   self._perform(["--print-version"], use_persistent_args=False)
\* and _perform hands its arguments to _call_program.
backend_version ==
    CallProgram_arglist(<<OptionToken("print-version")>>, "non-first", FALSE,
                        <<>>)

InvocationNext ==
    \/ \E args \in PersistentArgs : add_persistent_args(args)
    \/ \E text \in BackgroundTitles : set_background_title(text)
    \/ \E status \in {"OK", "ERROR"} : AssignCode(status, 127)
    \/ \E cmdargs \in CmdArgs, dash_escape \in DashEscapeModes,
          use_persistent_args \in BOOLEAN, kwargs \in Kwargs :
            CallProgram_arglist(cmdargs, dash_escape, use_persistent_args, kwargs)
    \/ backend_version

InvocationSpec == InvocationInit /\ [][InvocationNext]_vars

\* ------------------------------------------------------------ setup_debug
\* File objects a caller may pass as file: none, or one that is open.
DebugFiles == {"None", "f"}

\* Lines 853-868, in the order of the source: self._debug_enabled is
\* assigned first, then self._debug_logfile when a file is given, then comes
\* the test that raises BadPythonDialogUsage, and the last two assignments
\* are made when it has not raised.
setup_debug(enable, file, always_flush) ==
    LET logfile == IF file # "None" THEN file ELSE debug.logfile
        d == [debug EXCEPT !.enabled = enable, !.logfile = logfile]
    IN /\ call = NoCall
       /\ debug' = IF enable /\ logfile = "None"
                   THEN [d EXCEPT !.raised = "BadPythonDialogUsage"]
                   ELSE [d EXCEPT !.raised = "none",
                                  !.always_flush = always_flush,
                                  !.first_output = TRUE]
       /\ UNCHANGED <<process_vars, call, dialog_persistent_arglist,
                      persistent_calls, DIALOGRC, compat, use_stdout, environ,
                      files, temp, box>>

\* The program sets debugging up, any number of times, and calls a widget.
DebugNext ==
    \/ \E enable, always_flush \in BOOLEAN, file \in DebugFiles :
          setup_debug(enable, file, always_flush)
    \/ \E use_persistent_args \in BOOLEAN, kwargs \in Kwargs :
          CallProgram_arglist(<<OptionToken("x")>>, "non-first",
                              use_persistent_args, kwargs)

DebugSpec == InvocationInit /\ [][DebugNext]_vars

\* ================================================== the widgets' decoders
\* A widget method builds its command, calls self._perform and decodes the
\* pair (code, output) that _perform returns.  _perform is the operation of
\* the first part of this module; here its return value is drawn from the
\* codes and texts below, and a run is followed up to its first widget call.
PyList(l) == [type |-> "list", items |-> l]

\* A string constant of the source, written whole.
PyWord(w) == [type |-> "str", word |-> w]

\* Exit codes that _perform returns, and the values given to the instance's
\* exit code attributes.
PerformCodes == {0, 1, 4, 8, 9}
CodeAssignments == {<<"OK", 9>>, <<"EXTRA", 8>>}

\* A regular expression made of literal characters and of \d (written "d"
\* here), followed by $, applied with match(): the pattern must match from
\* the start of s, and $ matches at the end of s and before a newline that
\* ends s.
MatchDollar(pattern, s) ==
    /\ Len(s) \in {Len(pattern), Len(pattern) + 1}
    /\ Len(s) = Len(pattern) + 1 => s[Len(s)] = "\n"
    /\ \A i \in 1..Len(pattern) :
          IF pattern[i] = "d" THEN \E k \in 1..10 : DigitChars[k] = s[i]
          ELSE s[i] = pattern[i]

\* Lines 247-250
_calendar_date_rec == <<"d", "d", "/", "d", "d", "/", "d", "d", "d", "d">>
_timebox_time_rec == <<"d", "d", ":", "d", "d", ":", "d", "d">>

\* int(s) for a string of decimal digits
RECURSIVE IntOfDigits(_)
IntOfDigits(s) ==
    IF s = <<>> THEN 0
    ELSE 10 * IntOfDigits(SubSeq(s, 1, Len(s) - 1))
           + (CHOOSE k \in 0..9 : DigitChars[k + 1] = s[Len(s)])

\* [int(s) for s in mo.group(...)] for groups at the given positions
Groups(s, spans) ==
    PyList([i \in 1..Len(spans) |->
               PyInt(IntOfDigits(SubSeq(s, spans[i][1], spans[i][2])))])

\* Lines 1283-1294 (calendar) and 2525-2536 (timebox): on the OK code the
\* output must match the expression and the groups are converted; on any
\* other code the value is None.
DecodeGroups(rec, spans, code, output) ==
    IF code = DIALOG["OK"]
    THEN IF MatchDollar(rec, output)
         THEN Returns(<<PyInt(code), Groups(output, spans)>>)
         ELSE Raises("UnexpectedDialogOutput")
    ELSE Returns(<<PyInt(code), PyNone>>)

WidgetDone(fn, args, res) ==
    /\ call = NoCall
    /\ call' = [fn |-> fn, args |-> args, res |-> res]
    /\ UNCHANGED <<process_vars, instance_vars, files, temp, box>>

\* Lines 1244-1294
calendar(code, output) ==
    WidgetDone("calendar", [code |-> code, output |-> output],
               DecodeGroups(_calendar_date_rec,
                            <<<<1, 2>>, <<4, 5>>, <<7, 10>>>>, code, output))

\* Lines 2488-2536
timebox(code, output) ==
    WidgetDone("timebox", [code |-> code, output |-> output],
               DecodeGroups(_timebox_time_rec,
                            <<<<1, 2>>, <<4, 5>>, <<7, 8>>>>, code, output))

\* Texts that the dialog program may leave for calendar and timebox.
DateTexts ==
    {<<"0", "7", "/", "0", "4", "/", "2", "0", "0", "4">>, <<"7", "/", "4", "/", "2", "0", "0", "4">>, <<"0", "7", "/", "0", "4", "/", "2", "0", "0", "4", "\n">>, <<" ", "0", "7", "/", "0", "4", "/", "2", "0", "0", "4">>,
     <<"0", "7", "/", "0", "4", "/", "2", "0", "0", "4", "x">>, <<"0", "7", "-", "0", "4", "-", "2", "0", "0", "4">>, <<"0", "7", "/", "0", "4", "/", "0", "4">>, <<>>}
TimeTexts ==
    {<<"2", "3", ":", "5", "9", ":", "0", "7">>, <<"2", "3", ":", "5", "9", ":", "7">>, <<"2", "3", ":", "5", "9", ":", "0", "7", "\n">>, <<" ", "2", "3", ":", "5", "9", ":", "0", "7">>, <<"2", "3", "5", "9", "0", "7">>, <<>>}

\* s.split(sep) for a separator of one character
RECURSIVE split(_, _)
split(s, sep) ==
    IF \A i \in 1..Len(s) : s[i] # sep THEN <<s>>
    ELSE LET i == CHOOSE i \in 1..Len(s) :
                      s[i] = sep /\ \A h \in 1..(i - 1) : s[h] # sep
         IN <<SubSeq(s, 1, i - 1)>> \o split(SubSeq(s, i + 1, Len(s)), sep)

\* kwargs[key] = value: the value of an existing key is replaced where it
\* is, a new key is added at the end.
SetItem(kwargs, key, value) ==
    IF \E i \in 1..Len(kwargs) : kwargs[i][1] = key
    THEN [i \in 1..Len(kwargs) |->
             IF kwargs[i][1] = key THEN <<key, value>> ELSE kwargs[i]]
    ELSE Append(kwargs, <<key, value>>)

\* Lines 1337-1342: output.split('\n')[:-1] when output is not empty, []
\* when it is.
DecodeLines(code, output) ==
    IF output # <<>>
    THEN LET t == split(output, "\n")
         IN Returns(<<PyInt(code), PyList(SubSeq(t, 1, Len(t) - 1))>>)
    ELSE Returns(<<PyInt(code), PyList(<<>>)>>)

\* Lines 1296-1342, for one choice whose state is status: _to_onoff(t[2])
\* while the command is built, then _perform with separate_output set.
checklist(status, kwargs, code, output) ==
    LET onoff == _to_onoff(status)
        perform_kwargs == SetItem(kwargs, "separate_output", PyBool(TRUE))
    IN IF onoff.kind = "raise"
       THEN WidgetDone("checklist",
                       [status |-> status, kwargs |-> kwargs,
                        perform_kwargs |-> <<>>, performed |-> FALSE,
                        code |-> code, output |-> output],
                       onoff)
       ELSE WidgetDone("checklist",
                       [status |-> status, kwargs |-> kwargs,
                        perform_kwargs |-> perform_kwargs, performed |-> TRUE,
                        code |-> code, output |-> output],
                       DecodeLines(code, output))

\* The caller's keyword arguments and the texts left by the dialog program
\* for checklist.
ChecklistKwargs ==
    {<<>>,
     << <<"separate_output", PyBool(FALSE)>> >>,
     << <<"separate_output", PyBool(TRUE)>> >>,
     << <<"separate_output", PyBool(FALSE)>>, <<"no_shadow", PyBool(TRUE)>> >>}
ChecklistTexts ==
    {<<>>, <<"a", "\n">>, <<"a", "\n", "b", "c", "\n">>, <<"a", "\n", "b", "c">>, <<"a">>, <<"\n">>, <<"a", "\n", "\n", "b", "c", "\n">>}

\* s.split(sep, maxsplit): at most maxsplit splits, from the left
RECURSIVE splitmax(_, _, _)
splitmax(s, sep, maxsplit) ==
    IF maxsplit = 0 \/ \A i \in 1..Len(s) : s[i] # sep THEN <<s>>
    ELSE LET i == CHOOSE i \in 1..Len(s) :
                      s[i] = sep /\ \A h \in 1..(i - 1) : s[h] # sep
         IN <<SubSeq(s, 1, i - 1)>>
               \o splitmax(SubSeq(s, i + 1, Len(s)), sep, maxsplit - 1)

\* Lines 1887-1897: t[2] of a list with fewer than three elements is an
\* IndexError.
DecodeRenamed(code, output) ==
    IF code = DIALOG["OK"]
    THEN Returns(<<PyWord("accepted"), PyStr(output), PyNone>>)
    ELSE IF code = DIALOG["EXTRA"]
    THEN IF ~startswith(output, <<"R", "E", "N", "A", "M", "E", "D", " ">>)
         THEN Raises("PythonDialogBug")
         ELSE LET t == splitmax(output, " ", 2)
              IN IF Len(t) < 3 THEN Raises("IndexError")
                 ELSE Returns(<<PyWord("renamed"), PyStr(t[2]), PyStr(t[3])>>)
    ELSE Returns(<<PyInt(code), PyNone, PyNone>>)

\* Lines 1803-1897
inputmenu(code, output) ==
    WidgetDone("inputmenu", [code |-> code, output |-> output],
               DecodeRenamed(code, output))

InputmenuTexts ==
    {<<"R", "E", "N", "A", "M", "E", "D", " ", "t", " ", "N", "e", "w", " ", "L">>, <<"R", "E", "N", "A", "M", "E", "D", " ", "t">>, <<"R", "E", "N", "A", "M", "E", "D", " ", " ", "x">>, <<"R", "E", "N", "A", "M", "E", "D", " ", "t", " ">>, <<"R", "E", "N", "A", "M", "E", "D", " ">>,
     <<"R", "E", "N", "A", "M", "E", "D", "t", " ", "x">>, <<"r", "e", "n", "a", "m", "e", "d", " ", "t", " ", "x">>, <<"t">>, <<>>}

\* For comparison, a stripping that does not look at self.compat:
_strip_xdialog_newline_AnyCompat(output) ==
    IF output # <<>> /\ output[Len(output)] = "\n"
    THEN SubSeq(output, 1, Len(output) - 1)
    ELSE output

\* Lines 1150-1154
_strip_xdialog_newline(output) ==
    IF compat = "Xdialog" /\ output # <<>> /\ output[Len(output)] = "\n"
    THEN SubSeq(output, 1, Len(output) - 1)
    ELSE output

\* kwargs.get(key, default)
get(kwargs, key, default) ==
    IF \E i \in 1..Len(kwargs) : kwargs[i][1] = key
    THEN kwargs[CHOOSE i \in 1..Len(kwargs) : kwargs[i][1] = key][2]
    ELSE default

\* Lines 1899-1991
menu(kwargs, code, output) ==
    LET stripped == _strip_xdialog_newline(output)
    IN WidgetDone("menu",
                  [kwargs |-> kwargs, code |-> code, output |-> output],
                  IF Truth(get(kwargs, "help_button", PyBool(FALSE)))
                       /\ startswith(stripped, <<"H", "E", "L", "P", " ">>)
                  THEN Returns(<<PyWord("help"),
                                 PyStr(SubSeq(stripped, 6, Len(stripped)))>>)
                  ELSE Returns(<<PyInt(code), PyStr(stripped)>>))

MenuKwargs ==
    {<<>>,
     << <<"help_button", PyBool(TRUE)>> >>,
     << <<"help_button", PyBool(FALSE)>> >>,
     << <<"no_shadow", PyBool(TRUE)>>, <<"help_button", PyInt(1)>> >>}
MenuTexts ==
    {<<"H", "E", "L", "P", " ", "x">>, <<"H", "E", "L", "P", " ", "x", "\n">>, <<"H", "E", "L", "P", " ">>, <<"H", "E", "L", "P", " ", "\n">>, <<"H", "E", "L", "P">>, <<"h", "e", "l", "p", " ", "x">>,
     <<"t", "a", "g">>, <<"t", "a", "g", "\n">>, <<"\n">>, <<>>}

\* Lines 112-227: the exception classes of the module, all derived from
\* dialog.error.
ModuleExceptions ==
    {"error", "ExecutableNotFound", "PythonDialogBug", "ProbablyPythonBug",
     "BadPythonDialogUsage", "PythonDialogSystemError", "PythonDialogOSError",
     "PythonDialogIOError", "PythonDialogErrorBeforeExecInChildProcess",
     "PythonDialogReModuleError", "UnexpectedDialogOutput",
     "DialogTerminatedBySignal", "DialogError",
     "UnableToCreateTemporaryDirectory"}

\* s.strip() for the white space that occurs here
RECURSIVE strip(_)
strip(s) ==
    IF s # <<>> /\ Head(s) \in {" ", "\n"} THEN strip(Tail(s))
    ELSE IF s # <<>> /\ s[Len(s)] \in {" ", "\n"}
    THEN strip(SubSeq(s, 1, Len(s) - 1))
    ELSE s

\* int(value) for a string: white space around the number is ignored, a
\* sign may precede the digits, and anything else is a ValueError.
int(value) ==
    LET s == strip(value)
        signed == s # <<>> /\ Head(s) \in {"+", "-"}
        digits == IF signed THEN Tail(s) ELSE s
    IN IF digits # <<>>
          /\ \A i \in 1..Len(digits) : \E k \in 1..10 : DigitChars[k] = digits[i]
       THEN Returns(PyInt(IF signed /\ Head(s) = "-"
                          THEN -IntOfDigits(digits) ELSE IntOfDigits(digits)))
       ELSE Raises("ValueError")

\* Lines 2305-2363, for the init argument (min and max are tested in the
\* same way): BadPythonDialogUsage before _perform when it is not an int,
\* then int(value) on the OK code only.
rangebox(init, code, value) ==
    WidgetDone("rangebox", [init |-> init, code |-> code, value |-> value],
               IF init.type \notin {"int", "bool"}
               THEN Raises("BadPythonDialogUsage")
               ELSE IF code = DIALOG["OK"]
               THEN IF int(value).kind = "raise" THEN int(value)
                    ELSE Returns(<<PyInt(code), int(value).val>>)
               ELSE Returns(<<PyInt(code), PyNone>>))

RangeboxTexts ==
    {<<"5">>, <<"-", "5">>, <<"+", "1", "2">>, <<"5", "\n">>, <<" ", "5">>, <<"5", "a">>, <<"a">>, <<"1", " ", "2">>, <<"-">>, <<>>}

WidgetsInit ==
    /\ ProcessInit
    /\ call = NoCall
    /\ environ = <<>>
    /\ files = <<>>
    /\ temp = NoTemp
    /\ box = NoBox
    /\ \E compat_ \in {"dialog", "Xdialog"} :
          Construct(PyNone, compat_, PyNone)

WidgetsNext ==
    \/ \E a \in CodeAssignments : AssignCode(a[1], a[2])
    \/ \E code \in PerformCodes, output \in DateTexts : calendar(code, output)
    \/ \E code \in PerformCodes, output \in TimeTexts : timebox(code, output)
    \/ \E status \in {PyStr(<<"o", "n">>), PyBool(FALSE), PyNone},
          kwargs \in ChecklistKwargs, code \in PerformCodes,
          output \in ChecklistTexts :
            checklist(status, kwargs, code, output)
    \/ \E code \in PerformCodes, output \in InputmenuTexts :
          inputmenu(code, output)
    \/ \E kwargs \in MenuKwargs, code \in PerformCodes, output \in MenuTexts :
          menu(kwargs, code, output)
    \/ \E init \in {PyInt(1), PyStr(<<"1">>)}, code \in PerformCodes,
          value \in RangeboxTexts :
            rangebox(init, code, value)

WidgetsSpec == WidgetsInit /\ [][WidgetsNext]_vars

\* ===================================== scrollbox and its temporary directory
\* Line 516
find_temporary_nb_attempts == 5

\* tempfile.gettempdir(), and the names that "pythondialog-%d" with
\* random.randint(0, sys.maxsize) may give.
gettempdir == <<"/tmp">>
TempNames == {"pythondialog-1", "pythondialog-2"}

\* The file system with path added or removed.
WithPath(path, kind) ==
    [p \in DOMAIN files \cup {path} |-> IF p = path THEN kind ELSE files[p]]
WithoutPath(path) ==
    IF DOMAIN files \ {path} = {} THEN <<>>
    ELSE [p \in DOMAIN files \ {path} |-> files[p]]

\* What other users may have put where the directory is to be made.
TempFiles ==
    {<<>>} \cup
    {[p \in paths |-> kinds[p]] :
        paths \in (SUBSET {join(gettempdir, <<n>>) : n \in TempNames}) \ {{}},
        kinds \in [{join(gettempdir, <<n>>) : n \in TempNames}
                      -> {"directory", "not_executable"}]}

TempInit ==
    /\ ProcessInit
    /\ call = NoCall
    /\ dialog_persistent_arglist = <<>>
    /\ persistent_calls = <<>>
    /\ DIALOGRC = [type |-> "none"]
    /\ compat = "dialog"
    /\ use_stdout = FALSE
    /\ debug = NoDebug
    /\ environ = <<>>
    /\ files \in TempFiles
    /\ temp = NoTemp
    /\ box = NoBox

\* scrollbox (line 2400) or a caller of the function itself enters
\* _create_temporary_directory.
Begin(fn) ==
    /\ call = NoCall
    /\ temp.pc = "idle"
    /\ call' = [fn |-> fn, args |-> <<>>, res |-> NoRes]
    /\ temp' = [NoTemp EXCEPT !.pc = "loop", !.files0 = files]
    /\ UNCHANGED <<process_vars, instance_vars, files, box>>

\* The call in progress ends with res.
End(res, t) ==
    /\ call' = [call EXCEPT !.res = res]
    /\ temp' = [t EXCEPT !.pc = "done"]

\* Lines 518-522, when tempfile.gettempdir() finds no usable directory: it
\* does so in the first round or never, since the result is kept.
gettempdir_raises ==
    /\ temp.pc = "loop"
    /\ temp.i = 0
    /\ End(Raises(OSErrorHandling("OSError")), temp)
    /\ UNCHANGED <<process_vars, instance_vars, files, box>>

\* For comparison, a creation that takes a directory that is already there:
mkdir_ExistOk(name, ok) ==
    LET path == join(gettempdir, <<name>>)
        made == ok
        t == [temp EXCEPT !.mkdirs = Append(@, [path |-> path, mode |-> "0o700",
                                                ok |-> made]),
                          !.i = IF made THEN @ ELSE @ + 1,
                          !.tmp_dir = IF made THEN path ELSE @]
    IN /\ temp.pc = "loop"
       /\ files' = IF made THEN WithPath(path, "directory") ELSE files
       /\ IF made
          THEN IF call.fn = "_create_temporary_directory"
               THEN End(Returns(path), t)
               ELSE temp' = [t EXCEPT !.pc = "open"] /\ UNCHANGED call
          ELSE IF t.i = find_temporary_nb_attempts
               THEN End(Raises("UnableToCreateTemporaryDirectory"), t)
               ELSE temp' = t /\ UNCHANGED call
       /\ UNCHANGED <<process_vars, instance_vars, box>>

\* Lines 517-533, one round of the loop: the name is drawn, os.mkdir(tmp_dir,
\* 0o700) fails when there is something at the path and may fail for
\* another reason (ok false); a failure goes to the next round, and the
\* fifth failure raises UnableToCreateTemporaryDirectory.
mkdir(name, ok) ==
    LET path == join(gettempdir, <<name>>)
        made == ok /\ KindOf(path) = "missing"
        t == [temp EXCEPT !.mkdirs = Append(@, [path |-> path, mode |-> "0o700",
                                                ok |-> made]),
                          !.i = IF made THEN @ ELSE @ + 1,
                          !.tmp_dir = IF made THEN path ELSE @]
    IN /\ temp.pc = "loop"
       /\ files' = IF made THEN WithPath(path, "directory") ELSE files
       /\ IF made
          THEN IF call.fn = "_create_temporary_directory"
               THEN End(Returns(path), t)
               ELSE temp' = [t EXCEPT !.pc = "open"] /\ UNCHANGED call
          ELSE IF t.i = find_temporary_nb_attempts
               THEN End(Raises("UnableToCreateTemporaryDirectory"), t)
               ELSE temp' = t /\ UNCHANGED call
       /\ UNCHANGED <<process_vars, instance_vars, box>>

\* os.path.join(tmp_dir, "text")
fName == join(temp.tmp_dir, <<"text">>)

\* Lines 2415-2416: open(fName, mode="w") and f.write(text).  The file is
\* there as soon as open has succeeded, whether or not the write does.
open_write(opened, written) ==
    /\ temp.pc = "open"
    /\ opened \/ ~written
    /\ files' = IF opened THEN WithPath(fName, "not_executable") ELSE files
    /\ temp' = IF opened /\ written
               THEN [temp EXCEPT !.pc = "perform"]
               ELSE [temp EXCEPT !.pc = "finally", !.exc = "OSError"]
    /\ UNCHANGED <<process_vars, instance_vars, call, box>>

\* What self._perform(...)[0] may do at lines 2422-2424: return the exit
\* code of the dialog program or raise.
PerformExceptions ==
    {"DialogError", "PythonDialogErrorBeforeExecInChildProcess", "OSError",
     "KeyError"}

\* Lines 2418-2424.  The default for title changes only the arguments that
\* _perform is given.
perform_returns(code) ==
    /\ temp.pc = "perform"
    /\ temp' = [temp EXCEPT !.pc = "finally", !.code = code]
    /\ UNCHANGED <<process_vars, instance_vars, call, files, box>>

perform_raises(exc) ==
    /\ temp.pc = "perform"
    /\ temp' = [temp EXCEPT !.pc = "finally", !.exc = exc]
    /\ UNCHANGED <<process_vars, instance_vars, call, files, box>>

\* For comparison, a finally clause that goes to os.rmdir at once:
finally_unlink_Skipped(ok) ==
    /\ temp.pc = "finally"
    /\ ok
    /\ temp' = [temp EXCEPT !.pc = "rmdir"]
    /\ UNCHANGED <<process_vars, instance_vars, call, files, box>>

\* Lines 2426-2427: if os.path.exists(fName): os.unlink(fName).  When
\* os.unlink fails its OSError takes the place of the exception on its way,
\* os.rmdir is not reached and the block is left with PythonDialogOSError.
finally_unlink(ok) ==
    /\ temp.pc = "finally"
    /\ IF KindOf(fName) = "missing"
       THEN /\ ok
            /\ temp' = [temp EXCEPT !.pc = "rmdir"]
            /\ UNCHANGED <<call, files>>
       ELSE LET t == [temp EXCEPT !.removals =
                         Append(@, [op |-> "unlink", path |-> fName, ok |-> ok])]
            IN IF ok
               THEN /\ files' = WithoutPath(fName)
                    /\ temp' = [t EXCEPT !.pc = "rmdir"]
                    /\ UNCHANGED call
               ELSE /\ End(Raises(OSErrorHandling("OSError")), t)
                    /\ UNCHANGED files
    /\ UNCHANGED <<process_vars, instance_vars, box>>

\* Line 2428: os.rmdir(tmp_dir), which fails when the directory is not
\* empty and may fail for another reason (ok false); then the call returns
\* the code or the exception on its way leaves the OSErrorHandling() block
\* of line 2399.
finally_rmdir(ok) ==
    LET removed == ok /\ KindOf(fName) = "missing"
        t == [temp EXCEPT !.removals =
                 Append(@, [op |-> "rmdir", path |-> temp.tmp_dir,
                            ok |-> removed])]
    IN /\ temp.pc = "rmdir"
       /\ files' = IF removed THEN WithoutPath(temp.tmp_dir) ELSE files
       /\ IF ~removed THEN End(Raises(OSErrorHandling("OSError")), t)
          ELSE IF temp.exc # "none"
          THEN End(Raises(OSErrorHandling(temp.exc)), t)
          ELSE End(Returns(PyInt(temp.code)), t)
       /\ UNCHANGED <<process_vars, instance_vars, box>>

TempNext ==
    \/ Begin("_create_temporary_directory")
    \/ gettempdir_raises
    \/ Begin("scrollbox")
    \/ \E name \in TempNames, ok \in BOOLEAN : mkdir(name, ok)
    \/ \E opened, written \in BOOLEAN : open_write(opened, written)
    \/ \E code \in {0, 1} : perform_returns(code)
    \/ \E exc \in PerformExceptions : perform_raises(exc)
    \/ \E ok \in BOOLEAN : finally_unlink(ok)
    \/ \E ok \in BOOLEAN : finally_rmdir(ok)

TempSpec == TempInit /\ [][TempNext]_vars

\* ============================== the widgets' tests of their own arguments
\* Several widget methods test their arguments while they build the command
\* and call self._perform only afterwards.  WidgetArguments gives, for each
\* of them, arguments that pass the tests and arguments that do not.
On == PyStr(<<"o", "n">>)
Off == PyStr(<<"o", "f", "f">>)

WidgetArguments ==
    [checklist |-> {<<>>, <<On, Off>>, <<On, PyNone>>, <<PyStr(<<"x">>)>>},
     radiolist |-> {<<On>>, <<PyBool(FALSE), PyFloat(1)>>},
     treeview |-> {<<>>,
                   <<[status |-> On, depth |-> PyInt(0)]>>,
                   <<[status |-> On, depth |-> PyInt(0)],
                     [status |-> PyBool(TRUE), depth |-> PyInt(1)]>>,
                   <<[status |-> Off, depth |-> PyInt(0)],
                     [status |-> On, depth |-> PyInt(1)]>>,
                   <<[status |-> On, depth |-> PyStr(<<"0">>)]>>,
                   <<[status |-> PyNone, depth |-> PyInt(0)]>>},
     rangebox |-> {[min |-> PyInt(0), max |-> PyInt(5), init |-> PyInt(1)],
                   [min |-> PyInt(0), max |-> PyNone, init |-> PyInt(1)],
                   [min |-> PyInt(0), max |-> PyInt(5), init |-> PyStr(<<"1">>)]},
     form |-> {<<>>,
               <<[label |-> PyStr(<<"x">>), item |-> PyStr(<<>>)]>>,
               <<[label |-> PyInt(1), item |-> PyStr(<<>>)]>>,
               <<[label |-> PyStr(<<"x">>), item |-> PyNone]>>},
     progressbox |-> {[file_path |-> PyNone, fd |-> PyNone],
                      [file_path |-> PyStr(<<"x">>), fd |-> PyNone],
                      [file_path |-> PyNone, fd |-> PyInt(7)],
                      [file_path |-> PyStr(<<"x">>), fd |-> PyInt(7)]}]

isinstance_int(v) == v.type \in {"int", "bool"}

\* Whether the method raises BadPythonDialogUsage before it calls _perform:
\*   checklist (1324-1325), radiolist (2297-2298): _to_onoff(t[2]) for each
\*     choice;
\*   treeview (2579-2595): isinstance(t[3], int) and _to_onoff(t[2]) for each
\*     node, then nselected != 1;
\*   rangebox (2350-2354): isinstance(..., int) for min, max and init;
\*   _generic_form (1361-1365): isinstance(value, str) for label and item;
\*   _progressboxoid (2161-2166): file_path and fd both None or both given.
UsageError(widget, args) ==
    CASE widget \in {"checklist", "radiolist"} ->
            \E i \in 1..Len(args) : _to_onoff(args[i]).kind = "raise"
      [] widget = "treeview" ->
            \/ \E i \in 1..Len(args) :
                  \/ ~isinstance_int(args[i].depth)
                  \/ _to_onoff(args[i].status).kind = "raise"
            \/ Cardinality({i \in 1..Len(args) :
                               _to_onoff(args[i].status) = Returns(<<"o", "n">>)}) # 1
      [] widget = "rangebox" ->
            ~(isinstance_int(args.min) /\ isinstance_int(args.max)
                 /\ isinstance_int(args.init))
      [] widget = "form" ->
            \E i \in 1..Len(args) :
               args[i].label.type # "str" \/ args[i].item.type # "str"
      [] widget = "progressbox" ->
            (args.file_path = PyNone) = (args.fd = PyNone)

\* For comparison, a method that finds the fault in its arguments after
\* _call_program has forked:
RaiseUsage_AfterFork(widget) ==
    /\ pc = "idle"
    /\ ncalls < MaxCalls
    /\ result' = [NoResult EXCEPT !.kind = "raise", !.op = widget,
                                  !.exc = "BadPythonDialogUsage"]
    /\ rd' = "no"
    /\ ncalls' = ncalls + 1
    /\ child' = [k \in Pids |->
                    IF k = ncalls + 1
                    THEN [NoChild EXCEPT !.st = "forked", !.fds = parent_fds]
                    ELSE Forget(k)]
    /\ buf' = [p \in PipeIds |-> IF Retained(p) THEN buf[p] ELSE <<>>]
    /\ gauge_process' = [gauge_process EXCEPT !.written = "", !.updates = <<>>]
    /\ UNCHANGED nfaults
    /\ UNCHANGED <<DIALOG, frame, pc, locals, parent_fds>>
    /\ UNCHANGED helper_vars

\* The method raises BadPythonDialogUsage and that is all it does.
RaiseUsage(widget) ==
    /\ pc = "idle"
    /\ result' = [NoResult EXCEPT !.kind = "raise", !.op = widget,
                                  !.exc = "BadPythonDialogUsage"]
    /\ rd' = "no"
    /\ child' = [k \in Pids |-> Forget(k)]
    /\ buf' = [p \in PipeIds |-> IF Retained(p) THEN buf[p] ELSE <<>>]
    /\ gauge_process' = [gauge_process EXCEPT !.written = "", !.updates = <<>>]
    /\ UNCHANGED nfaults
    /\ UNCHANGED <<DIALOG, frame, pc, locals, parent_fds, ncalls>>
    /\ UNCHANGED helper_vars

\* A call of one of these methods: the tests, then _perform.
Widget(widget, args) ==
    IF UsageError(widget, args) THEN RaiseUsage(widget) ELSE Perform

UsageNext ==
    \/ Next
    \/ \E widget \in DOMAIN WidgetArguments :
          \E args \in WidgetArguments[widget] : Widget(widget, args)

UsageSpec == Init /\ [][UsageNext]_vars

\* ============================================ two gauges in one process
\* The class docstring (561-565) allows several instances of Dialog to be
\* used concurrently.  Here the program has the instance of the process
\* model and a second one, on which it starts a gauge while the gauge of
\* the first is running.
\* gauge_start has returned for the session of child k and gauge_stop has
\* not closed its pipe yet.
GaugeSession(k) ==
    /\ gauge_process.set
    /\ gauge_process.pid = k
    /\ gauge_process.stdin_open

\* The four pipe ends that gauge_start has created for session k.
SessionFds(k) == {Rfd(k, "in"), Wfd(k, "in"), Rfd(k, "out"), Wfd(k, "out")}

\* The child has got past os.execve: the dialog-like program runs.
Execed(k) == child[k].st \in {"running", "blocked"}

\* os.execve in the child, after the steps of lines 988-1001 have succeeded.
\* The descriptors that os.pipe() has returned and that the child has not
\* closed itself stay open in the dialog-like program when they are
\* inheritable, and are closed by execve when they are not; which it is
\* depends on the interpreter (os.pipe() returns non-inheritable
\* descriptors from Python 3.4 on, inheritable ones before; the module's
\* docstrings cover Python versions before 3.3).  The targets of os.dup2
\* always stay open.
Child_execve(k, inheritable) ==
    /\ child[k].st = "forked"
    /\ LET closed == {ChildCloseList(k)[i] : i \in 1..Len(ChildCloseList(k))}
       IN child' = [child EXCEPT ![k] =
                       [@ EXCEPT !.st = "running",
                                 !.fds = IF inheritable THEN @ \ closed ELSE {},
                                 !.father_stderr = FALSE,
                                 !.resfd = Wfd(k, "out"),
                                 !.stdin = IF child[k].gauge THEN Rfd(k, "in")
                                           ELSE NoFd]]
    /\ UNCHANGED <<parent_side, buf>>
    /\ UNCHANGED nfaults
    /\ UNCHANGED helper_vars

\* A gauge program reads its standard input and exits when it finds
\* end-of-file there, that is once no process has the write end of the
\* pipe open.
Backend_eof(k) ==
    /\ child[k].st = "running"
    /\ child[k].gauge
    /\ ~HasWriter(k, "in")
    /\ child' = [child EXCEPT ![k] = Gone(@, "exit")]
    /\ UNCHANGED <<parent_side, buf>>
    /\ UNCHANGED nfaults
    /\ UNCHANGED helper_vars

\* gauge_start on the second instance, lines 1649-1669 with every system
\* call succeeding: the two pipes, the fork, by which the child gets a copy
\* of all the descriptors of the parent, and the two os.close of the father.
\* The second instance keeps the pid and its two descriptors.
OtherInstance_gauge_start ==
    LET k == ncalls + 1 IN
    /\ pc = "idle"
    /\ ncalls < MaxCalls
    /\ ncalls' = k
    /\ result' = [NoResult EXCEPT !.kind = "return", !.op = "gauge_start",
                                  !.pid = k]
    /\ rd' = "no"
    /\ child' = [j \in Pids |->
                    IF j = k
                    THEN [NoChild EXCEPT !.st = "forked", !.gauge = TRUE,
                                         !.fds = parent_fds \cup SessionFds(k)]
                    ELSE Forget(j)]
    /\ parent_fds' = parent_fds \cup {Wfd(k, "in"), Rfd(k, "out")}
    /\ buf' = [p \in PipeIds |-> IF Retained(p) THEN buf[p] ELSE <<>>]
    /\ gauge_process' = [gauge_process EXCEPT !.written = "", !.updates = <<>>]
    /\ UNCHANGED nfaults
    /\ UNCHANGED <<DIALOG, frame, pc, locals>>
    /\ UNCHANGED helper_vars

\* The steps of the calling process inside a call of the first instance.
SessionCall ==
    \/ GaugeStart_pipe(TRUE)
    \/ CallProgram_args(TRUE)
    \/ CallProgram_pipe(TRUE)
    \/ CallProgram_fork(TRUE)
    \/ CallProgram_close(TRUE, TRUE)
    \/ CallProgram_return
    \/ GaugeStart_close(TRUE, TRUE)
    \/ GaugeStop_close(TRUE)
    \/ /\ pc = "wt_wait"
       /\ Wait_waitpid(TRUE, 0, 1, FALSE)
    \/ Wait_classify
    \/ Wait_read(TRUE)
    \/ Wait_close

\* The steps of the children.
SessionChild ==
    \/ \E k \in Pids, inheritable \in BOOLEAN : Child_execve(k, inheritable)
    \/ \E k \in Pids : Backend_eof(k)

\* The program starts a gauge on the first instance when none is running,
\* updates and stops the one that is, and starts one on the second instance
\* while that of the first runs.
SessionNext ==
    \/ ~gauge_process.set /\ GaugeStart
    \/ /\ gauge_process.set /\ gauge_process.stdin_open
       /\ \E percent \in Percents, text \in Texts, update_text \in BOOLEAN :
             GaugeUpdate(percent, text, update_text, TRUE)
    \/ gauge_process.set /\ gauge_process.stdin_open /\ OtherInstance_gauge_start
    \/ gauge_process.set /\ gauge_process.stdin_open /\ GaugeStop
    \/ SessionCall
    \/ SessionChild

\* The calling process goes on with the call it is in, which each step of
\* SessionCall does unless the system call blocks, and the kernel goes on
\* running every child.
SessionSpec ==
    /\ Init
    /\ [][SessionNext]_vars
    /\ WF_vars(SessionCall)
    /\ WF_vars(SessionChild)

\* ====================================== progressbox, programbox and their file
\* The descriptor that the caller passes as fd, and the one that os.open
\* returns.
CallerFd == "fd of the caller"
OpenedFd == "fd returned by os.open"

\* progressbox (2193-2235) and programbox (2237-2261) hand their arguments
\* to _progressboxoid.  Lines 2161-2166: the test of file_path and fd.  The
\* calling process has its own descriptor open, whether it passes it or not.
_progressboxoid(widget, file_path, fd, text) ==
    /\ call = NoCall
    /\ box.pc = "idle"
    /\ call' = [fn |-> widget,
                args |-> [file_path |-> file_path, fd |-> fd, text |-> text],
                res |-> IF UsageError("progressbox",
                                      [file_path |-> file_path, fd |-> fd])
                        THEN Raises("BadPythonDialogUsage") ELSE NoRes]
    /\ box' = [NoBox EXCEPT
                 !.pc = IF call'.res # NoRes THEN "done"
                        ELSE IF file_path.type # "none" THEN "open"
                        ELSE "perform",
                 !.widget = widget,
                 !.file_path = file_path.type # "none",
                 !.text = text,
                 !.fd = IF fd.type = "int" THEN CallerFd ELSE "None",
                 !.open = {CallerFd}]
    /\ UNCHANGED <<process_vars, instance_vars, files, temp>>

\* The call in progress ends with res.
BoxEnd(res, b) ==
    /\ call' = [call EXCEPT !.res = res]
    /\ box' = [b EXCEPT !.pc = "done"]

\* Line 2175: fd = os.open(file_path, file_flags), inside the
\* OSErrorHandling() block of line 2168 and before the try statement.
box_open(ok) ==
    /\ box.pc = "open"
    /\ IF ok
       THEN /\ box' = [box EXCEPT !.pc = "perform", !.fd = OpenedFd,
                                  !.open = @ \cup {OpenedFd}]
            /\ UNCHANGED call
       ELSE BoxEnd(Raises(OSErrorHandling("OSError")), box)
    /\ UNCHANGED <<process_vars, instance_vars, files, temp>>

\* Lines 2178-2181: args.
BoxArgs(widget, text) ==
    <<"--" \o widget>> \o (IF text THEN <<"text">> ELSE <<>>) \o <<"20", "78">>

\* Lines 2183-2184: self._perform(args, redir_child_stdin_from_fd=fd,
\* **kwargs)[0] returns the exit code; the child has fd as standard input.
box_perform_returns(code) ==
    /\ box.pc = "perform"
    /\ box' = [box EXCEPT !.pc = "finally", !.code = code, !.stdin = box.fd,
                          !.args = BoxArgs(box.widget, box.text)]
    /\ UNCHANGED <<process_vars, instance_vars, call, files, temp>>

\* The same call raises.
box_perform_raises(exc) ==
    /\ box.pc = "perform"
    /\ box' = [box EXCEPT !.pc = "finally", !.exc = exc,
                          !.args = BoxArgs(box.widget, box.text)]
    /\ UNCHANGED <<process_vars, instance_vars, call, files, temp>>

\* For comparison, a finally clause that closes fd whoever has opened it:
box_finally_CloseAny(ok, released) ==
    LET b == [box EXCEPT !.closes = Append(@, [fd |-> box.fd, ok |-> ok]),
                         !.open = IF ok \/ released THEN @ \ {box.fd} ELSE @]
    IN /\ box.pc = "finally"
       /\ ok => released
       /\ IF ~ok THEN BoxEnd(Raises(OSErrorHandling("OSError")), b)
          ELSE IF box.exc # "none"
          THEN BoxEnd(Raises(OSErrorHandling(box.exc)), b)
          ELSE BoxEnd(Returns(PyInt(box.code)), b)
       /\ UNCHANGED <<process_vars, instance_vars, files, temp>>

\* Lines 2185-2189: finally, os.close(fd) when file_path is not None, inside
\* OSErrorHandling(); then the exception on its way leaves the block of
\* line 2168, or line 2191 returns code.  When os.close fails its OSError
\* takes the place of the exception on its way, and the descriptor may or
\* may not have been released.
box_finally(ok, released) ==
    LET b == IF box.file_path
             THEN [box EXCEPT !.closes = Append(@, [fd |-> box.fd, ok |-> ok]),
                              !.open = IF ok \/ released THEN @ \ {box.fd}
                                       ELSE @]
             ELSE box
    IN /\ box.pc = "finally"
       /\ ok => released
       /\ ~box.file_path => ok
       /\ IF ~ok THEN BoxEnd(Raises(OSErrorHandling("OSError")), b)
          ELSE IF box.exc # "none"
          THEN BoxEnd(Raises(OSErrorHandling(box.exc)), b)
          ELSE BoxEnd(Returns(PyInt(box.code)), b)
       /\ UNCHANGED <<process_vars, instance_vars, files, temp>>

BoxNext ==
    \/ \E widget \in {"progressbox", "programbox"},
          args \in WidgetArguments["progressbox"], text \in BOOLEAN :
            _progressboxoid(widget, args.file_path, args.fd, text)
    \/ \E ok \in BOOLEAN : box_open(ok)
    \/ \E code \in PerformCodes : box_perform_returns(code)
    \/ \E exc \in PerformExceptions : box_perform_raises(exc)
    \/ \E ok, released \in BOOLEAN : box_finally(ok, released)

BoxSpec == Init /\ [][BoxNext]_vars

\* ============================================================== properties
\* The operations that end in _wait_for_program_termination.
HandlerOps == {"perform", "gauge_stop"}

\* The operation that has just ended waited for child k and collected its
\* termination status.
Collected(k) ==
    /\ result.kind # "none"
    /\ result.op \in HandlerOps
    /\ result.pid = k
    /\ child[k].st = "reaped"
    /\ child[k].how # "none"

\* Child k ended by calling exit, in the backend or before exec.
Exited(k) == child[k].how \in {"exit", "exit127"}

Raised(exc) == result.kind = "raise" /\ result.exc = exc

\* C1: when the child was terminated by a signal, the handler raises
\* DialogTerminatedBySignal, and the exception carries the number of the
\* signal that terminated the child, whichever signal it was and whether or
\* not core was dumped.
C1_SignalRaisesWithNumber ==
    \A k \in Pids :
        (Collected(k) /\ child[k].how = "signal")
            => (Raised("DialogTerminatedBySignal") /\ result.arg = child[k].sig)

\* C1 witness: a child killed by signal 31 was waited for and the exception
\* with number 31 was raised.
C1_Witness ==
    \E k \in Pids :
        /\ Collected(k) /\ child[k].how = "signal" /\ child[k].sig = 31
        /\ Raised("DialogTerminatedBySignal") /\ result.arg = 31

\* C2: a child that exits with code 127 makes the handler raise
\* PythonDialogErrorBeforeExecInChildProcess, and one that exits with code
\* 126 makes it raise ProbablyPythonBug.
C2_SentinelCodesRaise ==
    \A k \in Pids :
        (Collected(k) /\ Exited(k))
            => /\ child[k].code = 127
                    => Raised("PythonDialogErrorBeforeExecInChildProcess")
               /\ child[k].code = 126 => Raised("ProbablyPythonBug")

Kept(w) == SelectSeq([i \in 1..Len(w) |-> i],
                     LAMBDA i : ~(w[i] = "LF" /\ i > 1 /\ w[i - 1] = "CR"))

AsText(w) == [j \in 1..Len(Kept(w)) |->
                 IF w[Kept(w)[j]] = "CR" THEN "LF" ELSE w[Kept(w)[j]]]

\* Child k exited with a code the handler does not turn into an exception.
ExitedPlain(k) ==
    /\ Collected(k)
    /\ child[k].how = "exit"
    /\ child[k].code \notin {DIALOG["ERROR"], 126, 127}

\* C4 (amended): for a child that exits normally with a code other than the
\* configured ERROR code, 126 and 127, the handler raises only when reading
\* the result pipe fails (PythonDialogOSError) or the bytes cannot be decoded
\* (UnicodeDecodeError); otherwise it returns the child's exit code and the
\* text the child wrote with the line ends "\r\n" and "\r" turned into "\n".
C4_ReturnsCodeAndTranslatedText ==
    \A k \in Pids :
        ExitedPlain(k) =>
            IF rd = "failed" THEN Raised("PythonDialogOSError")
            ELSE IF ~Decodable(child[k].out) THEN Raised("UnicodeDecodeError")
            ELSE /\ result.kind = "return"
                 /\ result.code = child[k].code
                 /\ result.op = "perform" => result.text = AsText(child[k].out)

\* C4 witness: the child wrote "\r\n" and exited with the OK code; the
\* handler returned the code and "\n".
C4_Witness ==
    \E k \in Pids :
        /\ ExitedPlain(k) /\ child[k].code = DIALOG["OK"]
        /\ child[k].out = <<"CR", "LF">>
        /\ result.kind = "return" /\ result.text = <<"LF">>

\* C4 as stated: for such a child, whose output is text and read without an
\* operating-system failure, the handler never raises and returns exactly
\* the exit code and exactly the text written, unchanged.
C4_ReturnsTextUnchanged ==
    \A k \in Pids :
        (ExitedPlain(k) /\ result.op = "perform" /\ rd # "failed"
                        /\ Decodable(child[k].out))
            => /\ result.kind = "return"
               /\ result.code = child[k].code
               /\ result.text = child[k].out

\* The seven named codes of the instance.
NamedCodes == {DIALOG[n] : n \in StatusNames}

\* C5 (amended): an exit code returned by the handler is the exit code of the
\* child, whatever it is, and is never the configured ERROR code, 126 or 127;
\* a code that is none of the seven named codes is returned like any other.
C5_ReturnedCodeIsChildCode ==
    (result.kind = "return" /\ result.op \in HandlerOps)
        => /\ result.pid \in Pids
           /\ Collected(result.pid)
           /\ result.code = child[result.pid].code
           /\ result.code \notin {DIALOG["ERROR"], 126, 127}

\* C5 witness: the child exited with 7, which is none of the named codes,
\* and 7 was returned.
C5_Witness ==
    /\ result.kind = "return" /\ result.op \in HandlerOps
    /\ result.code = 7 /\ 7 \notin NamedCodes

\* C5 as stated: every exit code the handler returns is one of the seven
\* named codes or one of 126 and 127.
C5_ReturnedCodeIsNamed ==
    (result.kind = "return" /\ result.op \in HandlerOps)
        => result.code \in NamedCodes \cup {126, 127}

\* The positions of the parent between the return of _call_program and the
\* end of the read in _wait_for_program_termination.
AfterCallProgram == {"cp_ret", "gs_close", "wt_wait", "wt_classify", "wt_read"}

\* C6: whenever _call_program returns in the parent, the write end of the
\* result pipe is closed in the parent, the read end is still open there, and
\* the pair returned is the pid of the forked child and that read end; so,
\* from then on, once the child is gone no process holds the write end and a
\* read of the pipe meets end-of-stream.
C6_ParentHoldsReadEndOnly ==
    /\ pc = "cp_ret"
          => /\ child_pid = ncalls
             /\ child[child_pid].st # "none"
             /\ child_output_rfd = Rfd(child_pid, "out")
             /\ child_output_rfd \in parent_fds
             /\ Wfd(child_pid, "out") \notin parent_fds
    /\ (pc \in AfterCallProgram /\ child_pid \in Pids /\ ~Alive(child_pid))
          => ~HasWriter(child_pid, "out")

\* C6 witness: _call_program returns while the child has already written a
\* result and exited.
C6_Witness ==
    /\ pc = "cp_ret"
    /\ child[child_pid].st = "zombie"
    /\ child[child_pid].how = "exit"
    /\ Len(buf[<<child_pid, "out">>]) > 0

\* C7: whichever step fails in the forked child before the program image is
\* replaced, the child terminates with exit code 127; it never leaves
\* _call_program with an exception to go on as a copy of the caller.
C7_ChildNeverLeavesCallProgram ==
    \A k \in Pids : child[k].st # "escaped"

\* C8: a backend that writes a finite result and then exits is never held up
\* by the invocation that waits for it: while _perform waits for the child to
\* terminate, the child is not blocked writing its result.
C8_WaitedChildCanFinish ==
    ~(/\ frame = "perform"
      /\ pc = "wt_wait"
      /\ child[child_pid].st = "blocked")

\* C9 (amended): the handler reads the result pipe only after waitpid() has
\* reported the termination of the child, and it closes the read end only
\* after the read, which either reached end-of-stream or failed.
C9_ReadAfterTermination ==
    /\ pc \in {"wt_read", "wt_close"}
          => /\ child[child_pid].st = "reaped"
             /\ child_output_rfd \in parent_fds
    /\ pc = "wt_close" => rd = "eof"
    /\ \A k \in Pids :
          (Collected(k) /\ Rfd(k, "out") \notin parent_fds)
              => rd \in {"eof", "failed"}

\* C9 witness: the handler has read the result of a terminated child to
\* end-of-stream and closed the read end.
C9_Witness ==
    \E k \in Pids :
        /\ Collected(k) /\ result.kind = "return"
        /\ Rfd(k, "out") \notin parent_fds
        /\ rd = "eof" /\ Len(child[k].out) > 0

\* C9 as stated: the read end is closed only after it was read to
\* end-of-stream.
C9_ClosedOnlyAfterEof ==
    \A k \in Pids :
        (Collected(k) /\ Rfd(k, "out") \notin parent_fds) => rd = "eof"

\* The pipe ends a running gauge session retains: the write end of the
\* child's stdin and the read end of its result channel.
GaugeSessionEnds ==
    IF gauge_process.set /\ child[gauge_process.pid].st # "reaped"
    THEN {gauge_process.child_output_rfd}
         \cup (IF gauge_process.stdin_open THEN {gauge_process.stdin} ELSE {})
    ELSE {}

\* C10: after an operation has returned or raised, the parent holds open no
\* pipe end other than those retained by a running gauge session.
C10_NoDescriptorLeftOpen ==
    pc = "idle" => parent_fds \subseteq GaugeSessionEnds

\* The gauge controller was idle when the operation that has just ended was
\* called: no session was ever started, or gauge_stop had already closed the
\* stdin stream of the session (for a gauge_stop that has just ended: the
\* child had been waited for before the call).
IdleAtCall ==
    \/ ~gauge_process.set
    \/ result.op = "gauge_update" /\ ~gauge_process.stdin_open
    \/ /\ result.op = "gauge_stop"
       /\ result.pid \in Pids
       /\ child[result.pid].st = "reaped"
       /\ child[result.pid].how = "none"

\* C11: gauge_update or gauge_stop called while the gauge controller is idle
\* (never started, or already stopped) raises BadPythonDialogUsage.
C11_IdleUseIsUsageError ==
    (result.kind # "none" /\ result.op \in {"gauge_update", "gauge_stop"}
                          /\ IdleAtCall)
        => Raised("BadPythonDialogUsage")

\* A gauge session is running: gauge_start has stored it and gauge_stop has
\* not closed its stdin stream yet.
SessionRunning == gauge_process.set /\ gauge_process.stdin_open

\* C12: while a gauge session is running, gauge_start goes no further than
\* its entry, and no gauge child is forked after the one of the session.
C12_NoSecondSession ==
    SessionRunning
        => /\ frame = "gauge_start" => pc = "gs_pipe"
           /\ \A k \in Pids : k > gauge_process.pid => ~child[k].gauge

\* The message one gauge_update call is to put on the pipe.
ExpectedMessage(c) ==
    IF c.update_text
    THEN "XXX\n" \o ToString(c.percent) \o "\n" \o c.text \o "\nXXX\n"
    ELSE ToString(c.percent) \o "\n"

RECURSIVE MessagesOf(_)
MessagesOf(calls) ==
    IF calls = <<>> THEN ""
    ELSE MessagesOf(SubSeq(calls, 1, Len(calls) - 1))
             \o ExpectedMessage(calls[Len(calls)])

\* C13: on a running session, gauge_update(percent) writes "<percent>\n" and
\* gauge_update(percent, text, update_text=True) writes
\* "XXX\n<percent>\n<text>\nXXX\n"; what has reached the pipe when a call
\* returns is the concatenation of the messages of the calls, in call order.
C13_UpdatesWriteMessages ==
    /\ gauge_process.written = MessagesOf(gauge_process.updates)
    /\ (result.op = "gauge_update" /\ result.kind = "return")
          => SessionRunning /\ gauge_process.updates # <<>>

\* C13 witness: a plain update, one with text, and a plain one again.
C13_Witness ==
    /\ result.op = "gauge_update" /\ result.kind = "return"
    /\ gauge_process.written = "5\nXXX\n95\nmsg\nXXX\n5\n"

\* C14: gauge_stop closes the write end of the child's stdin before it waits
\* for the child; when it returns, the result pipe has been read to its end
\* and closed and the value returned is the exit code of the child; a child
\* killed by a signal makes it raise as the termination handler does.
C14_StopClosesStdinThenWaits ==
    /\ (frame = "gauge_stop" /\ pc \in {"wt_wait", "wt_classify", "wt_read", "wt_close"})
          => /\ ~gauge_process.stdin_open
             /\ gauge_process.stdin \notin parent_fds
    /\ \A k \in Pids :
          (Collected(k) /\ result.op = "gauge_stop")
              => /\ gauge_process.stdin \notin parent_fds
                 /\ result.kind = "return"
                       => /\ result.code = child[k].code
                          /\ rd = "eof"
                          /\ Rfd(k, "out") \notin parent_fds
                 /\ child[k].how = "signal" => Raised("DialogTerminatedBySignal")

\* C14 witness: gauge_stop has returned the exit code 0 of the gauge child.
C14_Witness ==
    \E k \in Pids :
        /\ Collected(k) /\ result.op = "gauge_stop" /\ result.kind = "return"
        /\ child[k].gauge /\ child[k].how = "exit" /\ result.code = 0

\* A helper function has been called and the call is over.
Done(fn) == call.fn = fn /\ call.res # NoRes

NeedsEscape(tok) == Len(tok) >= 2 /\ tok[1] = "-" /\ tok[2] = "-"

\* How many of the first i tokens of args start with "--".
EscapesUpTo(args, i) == Cardinality({h \in 1..i : NeedsEscape(args[h])})

\* C15: _dash_escape(args) returns the tokens of args in their order with a
\* "--" token right before each token that starts with "--" and nothing
\* else: its length is that of args plus the number of such tokens; args
\* itself is left as it was.
C15_DashEscapeInsertsBeforeEachDoubleHyphen ==
    /\ [](Done("_dash_escape") =>
            /\ call.res.kind = "return"
            /\ Len(call.res.val)
                 = Len(call.args) + EscapesUpTo(call.args, Len(call.args))
            /\ \A i \in 1..Len(call.args) :
                  LET j == i + EscapesUpTo(call.args, i)
                  IN /\ call.res.val[j] = call.args[i]
                     /\ NeedsEscape(call.args[i])
                           => call.res.val[j - 1] = <<"-", "-">>)
    /\ [][call.fn = "_dash_escape" => call'.args = call.args]_vars

\* C15 witness: ("--x", "x", "--") has become ("--", "--x", "x", "--", "--").
C15_Witness ==
    /\ Done("_dash_escape")
    /\ call.args = << <<"-", "-", "x">>, <<"x">>, <<"-", "-">> >>
    /\ call.res.val = << <<"-", "-">>, <<"-", "-", "x">>, <<"x">>,
                         <<"-", "-">>, <<"-", "-">> >>

\* C16: _dash_escape_nf raises PythonDialogBug for an empty args; otherwise
\* it returns args[0] as it is, with no "--" in front of it even when it
\* starts with "--", followed by _dash_escape of the other tokens.
C16_DashEscapeNfKeepsFirst ==
    Done("_dash_escape_nf") =>
        IF call.args = <<>>
        THEN call.res.kind = "raise" /\ call.res.exc = "PythonDialogBug"
        ELSE /\ call.res.kind = "return"
             /\ call.res.val[1] = call.args[1]
             /\ Tail(call.res.val) = _dash_escape(Tail(call.args))

\* C16 witness: ("--", "--x") has become ("--", "--", "--x"), the first "--"
\* being args[0].
C16_Witness ==
    /\ Done("_dash_escape_nf")
    /\ call.args = << <<"-", "-">>, <<"-", "-", "x">> >>
    /\ call.res.val = << <<"-", "-">>, <<"-", "-">>, <<"-", "-", "x">> >>

\* The mapping passed to _compute_common_args has the single key of a rule
\* in rules.
OneOption(rules) ==
    /\ Done("_compute_common_args")
    /\ Len(call.args) = 1
    /\ \E r \in _common_args_syntax :
          r.key = call.args[1][1] /\ r.rule \in rules

TokenOf(key) ==
    OptionToken((CHOOSE r \in _common_args_syntax : r.key = key).option)

SameIgnoringCase(s, word) ==
    Len(s) = Len(word) /\ \A i \in 1..Len(word) : Lower(s[i]) = word[i]

\* The boolean rule: "on", "off", or "error" for a value it does not accept.
BooleanRule(v) ==
    CASE v.type = "bool" -> IF v.bool THEN "on" ELSE "off"
      [] v.type = "int" -> IF v.int # 0 THEN "on" ELSE "off"
      [] v.type = "str" /\ SameIgnoringCase(v.str, <<"o", "n">>) -> "on"
      [] v.type = "str" /\ SameIgnoringCase(v.str, <<"o", "f", "f">>) -> "off"
      [] OTHER -> "error"

\* C17: a no-argument option gives its single token when its value is true
\* in a boolean context (True, a non-zero integer, a non-empty string, "off"
\* included) and no token otherwise (False, 0, "", None); no value is
\* refused.
C17_FlagEmittedWhenTruthy ==
    OneOption({"simple"}) =>
        /\ call.res.kind = "return"
        /\ call.res.val = IF Truth(call.args[1][2])
                          THEN <<TokenOf(call.args[1][1])>> ELSE <<>>

\* C17 witness: no_shadow="off" has given ("--no-shadow").
C17_Witness ==
    /\ OneOption({"simple"})
    /\ call.args = << <<"no_shadow", PyStr(<<"o", "f", "f">>)>> >>
    /\ call.res = Returns(<< <<"-", "-", "no-shadow">> >>)

\* C17 as stated: the value of a no-argument option goes through the boolean
\* rule, so that "off" gives no token and a value the rule does not accept
\* is a usage error.
C17_FlagCoercedByBooleanRule ==
    OneOption({"simple"}) =>
        LET b == BooleanRule(call.args[1][2])
        IN CASE b = "on" -> call.res = Returns(<<TokenOf(call.args[1][1])>>)
             [] b = "off" -> call.res = Returns(<<>>)
             [] OTHER -> call.res = Raises("BadPythonDialogUsage")

EscapedValue(s) == IF NeedsEscape(s) THEN << <<"-", "-">>, s >> ELSE <<s>>

\* C18: a valued option gives its token, never with a "--" before it,
\* followed by the value as a string, with a "--" before the value when the
\* value starts with "--"; begin gives "--begin", then the row coords[0],
\* then the column coords[1].
C18_ValuedOptionGivesTokenAndString ==
    /\ OneOption({"plain", "str"}) =>
          call.res = Returns(<<TokenOf(call.args[1][1])>>
                                 \o EscapedValue(str(call.args[1][2])))
    /\ (OneOption({"coords"}) /\ call.args[1][2].type = "tuple"
          /\ Len(call.args[1][2].items) >= 2) =>
          call.res = Returns(<<TokenOf("begin")>>
                                 \o EscapedValue(str(call.args[1][2].items[1]))
                                 \o EscapedValue(str(call.args[1][2].items[2])))

\* C19: a mapping with a key that is not in the table ends in
\* BadPythonDialogUsage.
C19_UnknownOptionIsUsageError ==
    (/\ Done("_compute_common_args")
     /\ \E i \in 1..Len(call.args) :
           call.args[i][1] \notin {r.key : r \in _common_args_syntax})
        => call.res = Raises("BadPythonDialogUsage")

\* C20: _to_onoff returns "on" for True, a non-zero integer and "on" in any
\* case, "off" for False, 0 and "off" in any case, and raises
\* BadPythonDialogUsage for anything else, a string with a newline after
\* the word included.
C20_ToOnOffAcceptsOnlyTheWords ==
    Done("_to_onoff") =>
        LET b == BooleanRule(call.args)
        IN CASE b = "on" -> call.res = Returns(<<"o", "n">>)
             [] b = "off" -> call.res = Returns(<<"o", "f", "f">>)
             [] OTHER -> call.res = Raises("BadPythonDialogUsage")

\* The tokens that the calls of add_persistent_args and
\* set_background_title made so far were to add, in the order of the calls.
RECURSIVE AddedTokens(_)
AddedTokens(calls) ==
    IF calls = <<>> THEN <<>>
    ELSE LET c == Head(calls)
         IN (IF c.method = "add_persistent_args" THEN c.args
             ELSE <<OptionToken("backtitle")>> \o EscapedValue(c.args))
                \o AddedTokens(Tail(calls))

\* C21: the argument list made by _call_program is the executable, then the
\* tokens added so far by add_persistent_args and set_background_title in
\* the order added when, and only when, use_persistent_args is true, then
\* the translated common options, then the request tokens: escaped except
\* the first with dash_escape "non-first", as they are with "none". Any
\* other dash_escape ends in PythonDialogBug with no pipe and no process.
C21_ArgumentVector ==
    Done("_call_program") =>
        LET a == call.args
            common == _compute_common_args(a.kwargs)
        IN IF a.dash_escape \notin {"non-first", "none"}
           THEN /\ call.res = Raises("PythonDialogBug")
                /\ parent_fds = {}
                /\ \A k \in Pids : child[k].st = "none"
           ELSE IF common.kind = "raise" THEN call.res = common
           ELSE /\ call.res.kind = "return"
                /\ call.res.val.arglist
                     = <<_dialog_prg>>
                         \o (IF a.use_persistent_args
                             THEN AddedTokens(persistent_calls) ELSE <<>>)
                         \o common.val
                         \o (IF a.dash_escape = "none" THEN a.cmdargs
                             ELSE <<a.cmdargs[1]>> \o _dash_escape(Tail(a.cmdargs)))

\* C21 witness: after add_persistent_args(["--x"]) and
\* set_background_title("--x"), a call with title="--x" and the request
\* ("--x", "--x").
C21_Witness ==
    /\ Done("_call_program")
    /\ call.args.use_persistent_args
    /\ Len(persistent_calls) = 2
    /\ call.res.kind = "return"
    /\ call.res.val.arglist
         = <<_dialog_prg, <<"-", "-", "x">>,
             <<"-", "-", "backtitle">>, <<"-", "-">>, <<"-", "-", "x">>,
             <<"-", "-", "title">>, <<"-", "-">>, <<"-", "-", "x">>,
             <<"-", "-", "x">>, <<"-", "-">>, <<"-", "-", "x">> >>

DialogVars == {EnvVarOf(st) : st \in StatusNames}

\* C22: the environment made for the child has the seven DIALOG_*
\* variables set to the current codes of the instance as strings, DIALOGRC
\* set to the value given at construction when one was given, and every
\* other variable of the caller's environment as it is there; the caller's
\* environment itself does not change.
C22_ChildEnvironment ==
    /\ []((Done("_call_program") /\ call.res.kind = "return") =>
            LET e == call.res.val.new_environ
                rc == IF DIALOGRC.type = "none" THEN {} ELSE {"DIALOGRC"}
            IN /\ DOMAIN e = DOMAIN environ \cup DialogVars \cup rc
               /\ \A st \in StatusNames : e[EnvVarOf(st)] = NatStr(DIALOG[st])
               /\ rc # {} => e["DIALOGRC"] = DIALOGRC.str
               /\ \A var \in DOMAIN environ \ (DialogVars \cup rc) :
                     e[var] = environ[var])
    /\ [][environ' = environ]_vars

\* C22 witness: the caller's environment has DIALOG_OK=9 and DIALOGRC=old,
\* the instance has DIALOG_OK = 127 and was given DIALOGRC "rc".
C22_Witness ==
    /\ Done("_call_program") /\ call.res.kind = "return"
    /\ "DIALOG_OK" \in DOMAIN environ
    /\ call.res.val.new_environ["DIALOG_OK"] = <<"1", "2", "7">>
    /\ call.res.val.new_environ["DIALOG_ERROR"] = <<"3">>
    /\ call.res.val.new_environ["DIALOGRC"] = <<"r", "c">>
    /\ call.res.val.new_environ["HOME"] = <<"h">>

\* The directories of the search path, in order: the value of PATH, or the
\* default, cut at the colons.
SearchDirs == Split(getenv_PATH)

\* The directories of the search path where the candidate for name f is a
\* regular file that can be read and executed.
Qualifying(f) ==
    {i \in 1..Len(SearchDirs) : KindOf(join(SearchDirs[i], f)) = "ok"}

ExactFormat(pattern, s) ==
    /\ Len(s) = Len(pattern)
    /\ \A i \in 1..Len(pattern) :
          IF pattern[i] = "d" THEN \E k \in 1..10 : DigitChars[k] = s[i]
          ELSE s[i] = pattern[i]

\* What calendar and timebox are to return for a code and a text.
ExactDecoding(pattern, spans, code, output) ==
    IF code = DIALOG["OK"]
    THEN IF ExactFormat(pattern, output)
         THEN Returns(<<PyInt(code), Groups(output, spans)>>)
         ELSE Raises("UnexpectedDialogOutput")
    ELSE Returns(<<PyInt(code), PyNone>>)

\* C24: with the OK code calendar returns the three integers when and only
\* when the text is exactly DD/MM/YYYY and raises UnexpectedDialogOutput for
\* every other text; timebox does the same with HH:MM:SS; with any other
\* code both return the code and None.
C24_DateAndTimeExactFormat ==
    /\ Done("calendar") =>
          call.res = ExactDecoding(<<"d", "d", "/", "d", "d", "/", "d", "d", "d", "d">>,
                                   <<<<1, 2>>, <<4, 5>>, <<7, 10>>>>,
                                   call.args.code, call.args.output)
    /\ Done("timebox") =>
          call.res = ExactDecoding(<<"d", "d", ":", "d", "d", ":", "d", "d">>,
                                   <<<<1, 2>>, <<4, 5>>, <<7, 8>>>>,
                                   call.args.code, call.args.output)

\* The tags of a text: its non-empty stretches of characters other than the
\* newline that are not part of a longer one, as pairs of positions.
TagSpans(s) ==
    {sp \in (1..Len(s)) \X (1..Len(s)) :
        /\ sp[1] <= sp[2]
        /\ \A i \in sp[1]..sp[2] : s[i] # "\n"
        /\ sp[1] = 1 \/ s[sp[1] - 1] = "\n"
        /\ sp[2] = Len(s) \/ s[sp[2] + 1] = "\n"}

\* The lines of tags put one after the other, a newline after each.
RECURSIVE Terminated(_)
Terminated(tags) ==
    IF tags = <<>> THEN <<>>
    ELSE Head(tags) \o <<"\n">> \o Terminated(Tail(tags))

\* C25: checklist calls _perform with separate_output true whatever the
\* caller passed, so that --separate-output is on the command line; the
\* tags returned, each followed by a newline, make up the text when the
\* text is made of newline-terminated tags; the empty text gives the empty
\* list; and every non-empty tag of the text is among those returned.
C25_ChecklistKeepsEveryTag ==
    (Done("checklist") /\ call.args.performed) =>
        LET a == call.args
            tags == call.res.val[2].items
        IN /\ \E i \in 1..Len(a.perform_kwargs) :
                 a.perform_kwargs[i] = <<"separate_output", PyBool(TRUE)>>
           /\ \E i \in 1..Len(_compute_common_args(a.perform_kwargs).val) :
                 _compute_common_args(a.perform_kwargs).val[i]
                     = OptionToken("separate-output")
           /\ call.res.kind = "return"
           /\ call.res.val[1] = PyInt(a.code)
           /\ a.output = <<>> => tags = <<>>
           /\ (a.output # <<>> /\ a.output[Len(a.output)] = "\n")
                 => Terminated(tags) = a.output
           /\ \A sp \in TagSpans(a.output) :
                 \E k \in 1..Len(tags) :
                    tags[k] = SubSeq(a.output, sp[1], sp[2])

\* C26: inputmenu returns ("accepted", text, None) on the OK code; on the
\* EXTRA code every text that starts with "RENAMED " gives ("renamed", tag,
\* label), tag and label being what stands before and after the first space
\* of the rest of the text, and a text without the prefix ends in
\* PythonDialogBug; on any other code it returns (code, None, None).
C26_InputmenuDecoding ==
    Done("inputmenu") =>
        LET code == call.args.code
            output == call.args.output
            rest == SubSeq(output, 9, Len(output))
            res == call.res
        IN CASE code = DIALOG["OK"] ->
                   res = Returns(<<PyWord("accepted"), PyStr(output), PyNone>>)
             [] code # DIALOG["OK"] /\ code = DIALOG["EXTRA"] ->
                   IF startswith(output, <<"R", "E", "N", "A", "M", "E", "D", " ">>)
                   THEN /\ res.kind = "return"
                        /\ res.val[1] = PyWord("renamed")
                        /\ \E i \in 1..Len(rest) :
                              /\ rest[i] = " "
                              /\ \A h \in 1..(i - 1) : rest[h] # " "
                              /\ res.val[2] = PyStr(SubSeq(rest, 1, i - 1))
                              /\ res.val[3] = PyStr(SubSeq(rest, i + 1, Len(rest)))
                   ELSE res = Raises("PythonDialogBug")
             [] OTHER -> res = Returns(<<PyInt(code), PyNone, PyNone>>)

\* What menu is to return when it decodes text.
MenuResult(kwargs, code, text) ==
    IF /\ \E i \in 1..Len(kwargs) :
             kwargs[i][1] = "help_button" /\ Truth(kwargs[i][2])
       /\ startswith(text, <<"H", "E", "L", "P", " ">>)
    THEN Returns(<<PyWord("help"), PyStr(SubSeq(text, 6, Len(text)))>>)
    ELSE Returns(<<PyInt(code), PyStr(text)>>)

\* The captured text as menu decodes it: in Xdialog compatibility mode
\* without the newline that ends it, if there is one.
TextDecoded(output) ==
    IF compat = "Xdialog" /\ output # <<>> /\ output[Len(output)] = "\n"
    THEN SubSeq(output, 1, Len(output) - 1)
    ELSE output

\* C27: menu returns ("help", text without its first five characters) when
\* and only when help_button was passed with a true value and the text
\* starts with "HELP ", and (code, text) with the code unchanged otherwise,
\* the text being the captured text, less one newline at its end in Xdialog
\* compatibility mode.
C27_MenuHelpDecoding ==
    Done("menu") =>
        call.res = MenuResult(call.args.kwargs, call.args.code,
                              TextDecoded(call.args.output))

C27_Witness ==
    /\ Done("menu")
    /\ compat = "Xdialog"
    /\ call.args.output = <<"H", "E", "L", "P", " ", "x", "\n">>
    /\ call.args.kwargs = << <<"help_button", PyBool(TRUE)>> >>
    /\ call.res = Returns(<<PyWord("help"), PyStr(<<"x">>)>>)

\* C27 as first stated: the text returned is the captured text, whatever
\* the compatibility mode.
C27_MenuReturnsCapturedText ==
    Done("menu") =>
        call.res = MenuResult(call.args.kwargs, call.args.code,
                              call.args.output)

\* C28: once _perform has returned, rangebox converts the text to an
\* integer on the OK code only and returns (code, value); a text that is
\* not an integer ends in one of the module's exceptions; on any other code
\* the result is (code, None), whatever the text.
C28_RangeboxParsesOnOkOnly ==
    (Done("rangebox") /\ call.args.init.type = "int") =>
        LET a == call.args
        IN IF a.code = DIALOG["OK"]
           THEN IF int(a.value).kind = "return"
                THEN call.res = Returns(<<PyInt(a.code), int(a.value).val>>)
                ELSE /\ call.res.kind = "raise"
                     /\ call.res.exc \in ModuleExceptions
           ELSE call.res = Returns(<<PyInt(a.code), PyNone>>)

\* C30: _create_temporary_directory calls os.mkdir at most five times,
\* always with mode 0o700, and not again after a call that succeeded; it
\* returns the path of that call, a directory that was not there before; it
\* raises UnableToCreateTemporaryDirectory when, and only when, five calls
\* have failed.
C30_BoundedRetry ==
    LET n == Len(temp.mkdirs)
    IN /\ n <= 5
       /\ \A k \in 1..n : temp.mkdirs[k].mode = "0o700"
       /\ \A k \in 1..(n - 1) : ~temp.mkdirs[k].ok
       /\ Done("_create_temporary_directory") =>
             /\ call.res = Raises("UnableToCreateTemporaryDirectory")
                   <=> (n = 5 /\ \A k \in 1..n : ~temp.mkdirs[k].ok)
             /\ call.res.kind = "return" =>
                   /\ n >= 1
                   /\ temp.mkdirs[n].ok
                   /\ call.res.val = temp.mkdirs[n].path
                   /\ call.res.val \notin DOMAIN temp.files0
                   /\ KindOf(call.res.val) = "directory"

C30_Witness ==
    /\ Done("_create_temporary_directory")
    /\ call.res.kind = "return"
    /\ Len(temp.mkdirs) = 3
    /\ temp.files0 # <<>>

\* scrollbox has ended after its temporary directory had been made.
ScrollboxEnded ==
    /\ Done("scrollbox")
    /\ temp.tmp_dir # <<>>

\* The removals that the call has asked for, in order.
RemovalsOf(t) == [k \in 1..Len(t.removals) |-> t.removals[k].op]

\* C29: when scrollbox ends after the directory was made, whether it
\* returns or an exception of the write or of _perform leaves it, either
\* os.unlink was called first on the file, if there was one, and os.rmdir
\* second on the directory, and neither is there any more; or one of the two
\* removals has failed, the call ends in PythonDialogOSError and what could
\* not be removed is still there.
C29_ScrollboxRemovesFileThenDirectory ==
    ScrollboxEnded =>
        LET file == join(temp.tmp_dir, <<"text">>)
        IN IF \A k \in 1..Len(temp.removals) : temp.removals[k].ok
           THEN /\ KindOf(file) = "missing"
                /\ KindOf(temp.tmp_dir) = "missing"
                /\ RemovalsOf(temp) \in {<<"unlink", "rmdir">>, <<"rmdir">>}
                /\ RemovalsOf(temp) = <<"rmdir">>
                      => temp.exc = "OSError" /\ temp.code = -1
                /\ call.res = IF temp.exc = "none" THEN Returns(PyInt(temp.code))
                              ELSE Raises(OSErrorHandling(temp.exc))
           ELSE /\ call.res = Raises("PythonDialogOSError")
                /\ KindOf(temp.tmp_dir) = "directory"
                /\ \A k \in 1..(Len(temp.removals) - 1) : temp.removals[k].ok
                /\ KindOf(file) # "missing"
                      => RemovalsOf(temp) = <<"unlink">>

C29_Witness ==
    /\ ScrollboxEnded
    /\ temp.exc = "DialogError"
    /\ call.res = Raises("DialogError")
    /\ RemovalsOf(temp) = <<"unlink", "rmdir">>
    /\ KindOf(temp.tmp_dir) = "missing"
    /\ Len(temp.mkdirs) = 2

\* C29 as first stated: after the call neither the file nor the directory
\* is there, however the call ends.
C29_NeitherExistsAfterTheCall ==
    ScrollboxEnded =>
        /\ KindOf(join(temp.tmp_dir, <<"text">>)) = "missing"
        /\ KindOf(temp.tmp_dir) = "missing"

\* C31: an exception that leaves a public operation (a widget call through
\* _perform, gauge_start, gauge_update, gauge_stop) is one of the classes
\* derived from error.
C31_EveryFailureIsModuleError ==
    result.kind = "raise" => result.exc \in ModuleExceptions

\* A step in which a system call of the invoker or of the termination
\* handler fails in the parent: os.pipe(), os.fork(), the father's
\* os.close(), os.waitpid() or the read of the result pipe.
OSFailureStep ==
    /\ pc \in {"cp_pipe", "cp_fork", "cp_close", "wt_wait", "wt_read"}
    /\ result'.kind = "raise"
    /\ nfaults' = nfaults + 1 \/ pc = "wt_wait"

\* C32: when one of those system calls fails, the operation ends in
\* PythonDialogOSError, not in a raw OSError and not in one of the
\* exceptions that stand for a failure of the dialog program.
C32_OSFailureIsPythonDialogOSError ==
    [][OSFailureStep => result'.exc = "PythonDialogOSError"]_vars


\* A step in which a public operation ends in BadPythonDialogUsage.
UsageErrorStep ==
    /\ result' # result
    /\ result'.kind = "raise"
    /\ result'.exc = "BadPythonDialogUsage"

\* C33: in the step in which a widget method or gauge_update raises
\* BadPythonDialogUsage the call has started no invocation and forked no
\* process, the parent's descriptors are the same, no pipe has got more
\* bytes and nothing has been written to the pipe of a gauge.
C33_UsageErrorBeforeAnySpawn ==
    [][UsageErrorStep =>
          /\ ncalls' = ncalls
          /\ \A k \in Pids : child[k].st = "none" => child'[k].st = "none"
          /\ parent_fds' = parent_fds
          /\ \A p \in PipeIds : buf'[p] \in {buf[p], <<>>}
          /\ gauge_process'.written \in {gauge_process.written, ""}
          /\ gauge_process'.updates \in {gauge_process.updates, <<>>}
          /\ gauge_process'.set = gauge_process.set
          /\ pc' = "idle" /\ pc = "idle"]_vars

\* treeview has raised BadPythonDialogUsage while a gauge is running and the
\* program could still start an invocation.
C33_Witness ==
    /\ result.kind = "raise"
    /\ result.exc = "BadPythonDialogUsage"
    /\ result.op = "treeview"
    /\ gauge_process.set
    /\ Alive(gauge_process.pid)
    /\ ncalls < MaxCalls


\* _call_program has got as far as the command line and the pipe.
Invoked ==
    /\ call.fn = "_call_program"
    /\ call.res.kind = "return"

\* C34: every invocation of the instance, backend_version and the calls with
\* use_persistent_args false among them, connects the result pipe to the
\* child stream that self.use_stdout names, and whenever that stream is
\* standard output the command line has "--stdout".
C34_StdoutWiringHasStdoutOption ==
    Invoked =>
        /\ call.res.val.output_fd = IF use_stdout THEN 1 ELSE 2
        /\ call.res.val.output_fd = 1 =>
              \E i \in 1..Len(call.res.val.arglist) :
                 call.res.val.arglist[i] = OptionToken("stdout")


\* C35: the seven named exit codes of the instance are pairwise distinct
\* and none of them is 126 or 127, at construction and after any sequence
\* of operations.
C35_NamedCodesDistinctAndNotSentinel ==
    /\ \A status \in StatusNames : DIALOG[status] \notin {126, 127}
    /\ \A s1, s2 \in StatusNames : s1 # s2 => DIALOG[s1] # DIALOG[s2]


C37_GaugeStopReturns ==
    (frame = "gauge_stop")
        ~> (result.kind = "return" /\ result.op = "gauge_stop")


\* C38: whenever debugging is enabled a log file object is set, and when
\* setup_debug has raised BadPythonDialogUsage debugging is disabled.
C38_DebugEnabledHasLogfile ==
    /\ debug.enabled => debug.logfile # "None"
    /\ debug.raised = "BadPythonDialogUsage" => ~debug.enabled


\* What the call returns or raises when no os.close has failed: the exit
\* code, or the exception of _perform as it leaves the OSErrorHandling()
\* block.
BoxOutcome ==
    IF box.exc = "none" THEN Returns(PyInt(box.code))
    ELSE Raises(OSErrorHandling(box.exc))

\* C39: when progressbox or programbox has ended, the caller's descriptor
\* is still open and no os.close was called on it; called with fd, the
\* call has closed nothing and has given fd to the child as standard input;
\* called with file_path, the call has called os.close once on the
\* descriptor that it had opened, after _perform has returned or raised, and
\* the descriptor is closed, unless that os.close has failed, in which case
\* the call ends in PythonDialogOSError.
C39_BoxDescriptorOwnership ==
    box.pc = "done" =>
       /\ CallerFd \in box.open
       /\ \A i \in 1..Len(box.closes) : box.closes[i].fd = OpenedFd
       /\ ~box.file_path =>
             /\ box.closes = <<>>
             /\ OpenedFd \notin box.open
             /\ call.res.kind = "return" => box.stdin = CallerFd
             /\ call.res \in {BoxOutcome, Raises("BadPythonDialogUsage")}
       /\ box.file_path /\ box.fd # OpenedFd =>
             /\ box.closes = <<>>
             /\ OpenedFd \notin box.open
             /\ call.res \in {Raises("PythonDialogOSError"),
                              Raises("BadPythonDialogUsage")}
       /\ box.file_path /\ box.fd = OpenedFd =>
             /\ Len(box.closes) = 1
             /\ box.args # <<>>
             /\ call.res.kind = "return" => box.stdin = OpenedFd
             /\ IF box.closes[1].ok
                THEN OpenedFd \notin box.open /\ call.res = BoxOutcome
                ELSE call.res = Raises("PythonDialogOSError")

\* Called with file_path, _perform has raised DialogError, the descriptor
\* was closed and DialogError has left the call.
C39_Witness ==
    /\ box.pc = "done"
    /\ box.file_path
    /\ box.exc = "DialogError"
    /\ box.closes = <<[fd |-> OpenedFd, ok |-> TRUE]>>
    /\ box.open = {CallerFd}
    /\ call.res = Raises("DialogError")

\* C39 as first stated: called with file_path, the descriptor that the
\* call has opened is closed however the call ends; called with fd, the
\* caller's descriptor is the child's standard input and is still open.
C39_OpenedDescriptorClosedOnEveryPath ==
    box.pc = "done" =>
       /\ OpenedFd \notin box.open
       /\ CallerFd \in box.open
       /\ (~box.file_path /\ call.res.kind = "return") => box.stdin = CallerFd

====
